---- MODULE Spec2Model ----
(***************************************************************************)
(* Structure assembly (DocumentAnalyzer) and hybrid matching               *)
(* (SemanticMatcher with OllamaHandler as the relevance judge).            *)
(*                                                                         *)
(* Numbers of the program that are fractions (scores, weights, thresholds) *)
(* are exact rationals <<n, d>> with d > 0, kept in lowest terms.  Texts   *)
(* are sequences of one-character strings.                                 *)
(***************************************************************************)
EXTENDS Integers, Sequences, FiniteSets, TLC

VARIABLES
    \* ---- SemanticMatcher / findBestMatches ----
    config,        \* this.config of the matcher (after the constructor's defaults)
    ollamaHandler, \* TRUE when a judge (OllamaHandler) was handed to the constructor
    stats,         \* this.stats
    topics,        \* the ranked topics handed to performSemanticMatching
    analysisResults, \* the documents: filename and structure of each
    ppc,           \* position of performSemanticMatching: "matching", "done",
                   \* ("init": initializeComponents comes first)
                   \* "refined" ("off": the matcher is not used)
    docNo,         \* index of the document the loop is at
    allMatches,    \* const allMatches
    totalMatches,  \* the pipeline's this.stats.totalMatches
    refinedAnalysis, \* const refinedAnalysis of generateFinalOutput
    sim,           \* the values fuzzyMatch / cosineSimilarity take on (topic, text)
    mpc,           \* position of findBestMatches: "idle", "awaitBatch", "done"
    searchIndex,   \* const searchIndex
    topicBatches,  \* const topicBatches
    batchNo,       \* 1-based index of the batch the for-loop is awaiting
    runs,          \* per topic position: the _findTopicMatches invocation
    calls,         \* every getSemanticRelevance invocation, in issue order
                   \* (killed: the termination signals sent to its processes)
    matches,       \* const matches (the returned array once mpc = "done")
    returned,      \* history: the matches findBestMatches has returned since
                   \* construction or the last resetStats, counted
    issued,        \* history: the getSemanticRelevance calls issued since then
    \* ---- DocumentAnalyzer / createDocumentStructure ----
    pageResults,   \* argument of createDocumentStructure
    apc,           \* position of createDocumentStructure: "idle", "scan",
                   \* "done", "thrown" ("off": the analyzer is not used)
    pageIdx,       \* index of the page result being processed
    sortedDetections, \* detections of that page still to process, in reading order
    structure,     \* const structure (title, sections, metadata)
    currentSection,\* let currentSection
    allText,       \* let allText
    results,       \* what the calls of createDocumentStructure returned so far
    \* ---- Round1BPipeline / run ----
    rpc,           \* position of run: the step it is about to do, or how it settled
    input,         \* the input document fs.readJSON yields
    runError,      \* the error run was left with ("none": no error)
    effects,       \* what the run has done so far, counted
    matching,      \* the pipeline's this.config.matching (<<>>: no pipeline)
    ollamaAvailable, \* what testConnection returned: "yes", "no" ("untested")
    \* ---- OllamaHandler / getSemanticRelevance on its own ----
    jpc,           \* position of the call: "idle", "attempt", "sleep",
                   \* "returned", "rejected" ("off": no such call)
    judged,        \* its arguments: topic and text
    jattempt,      \* let attempt of executePrompt
    jerror,        \* what the last failed attempt failed with ("none": none did)
    joutcome,      \* how its executePrompt ended (<<>>: it has not)
    relevance      \* the number the call returned (QZero before it returns)

inputs == <<config, ollamaHandler, topics, analysisResults, sim>>
mvars == <<inputs, stats, mpc, searchIndex, topicBatches, batchNo, runs,
           calls, matches, ppc, docNo, allMatches, totalMatches,
           refinedAnalysis, returned, issued>>
avars == <<pageResults, apc, pageIdx, sortedDetections, structure,
           currentSection, allText, results>>
rvars == <<rpc, input, runError, effects, matching, ollamaAvailable>>
jvars == <<jpc, judged, jattempt, jerror, joutcome, relevance>>
vars == <<mvars, avars, rvars, jvars>>

\* null / undefined where a text is expected (no text has this shape)
NullText == <<"null">>
\* a text that is neither null nor the empty string
Truthy(text) == text # NullText /\ text # <<>>
\* the section of an index entry that belongs to no section
NoSection == 0

(***************************************************************************)
(* Rational arithmetic                                                     *)
(***************************************************************************)
Abs(n) == IF n < 0 THEN -n ELSE n

RECURSIVE GCD(_, _)
GCD(a, b) == IF b = 0 THEN a ELSE GCD(b, a % b)

\* the rational n/d (d # 0) in lowest terms with a positive denominator
Q(n, d) ==
    LET s == IF d < 0 THEN -1 ELSE 1
        g == GCD(Abs(n), Abs(d))
    IN  <<(s * n) \div g, (s * d) \div g>>

QZero == <<0, 1>>
QOne == <<1, 1>>
QAdd(a, b) == Q(a[1] * b[2] + b[1] * a[2], a[2] * b[2])
QSub(a, b) == Q(a[1] * b[2] - b[1] * a[2], a[2] * b[2])
QMul(a, b) == Q(a[1] * b[1], a[2] * b[2])
QDiv(a, b) == Q(a[1] * b[2], a[2] * b[1])
QLeq(a, b) == a[1] * b[2] <= b[1] * a[2]
QLt(a, b) == a[1] * b[2] < b[1] * a[2]
QMax(a, b) == IF QLeq(a, b) THEN b ELSE a
QMin(a, b) == IF QLeq(a, b) THEN a ELSE b

\* parseFloat(x.toFixed(3)): x rounded to the nearest thousandth, halves away
\* from zero
ToFixed3(x) ==
    LET k == (2000 * Abs(x[1]) + x[2]) \div (2 * x[2])
    IN  Q(IF x[1] < 0 THEN -k ELSE k, 1000)

(***************************************************************************)
(* Sequences                                                               *)
(***************************************************************************)
Min2(a, b) == IF a <= b THEN a ELSE b

SeqMap(s, F(_)) == [i \in 1..Len(s) |-> F(s[i])]

RECURSIVE Flat(_)
\* Array.prototype.flat(): the concatenation of a sequence of sequences
Flat(ss) == IF ss = <<>> THEN <<>> ELSE Head(ss) \o Flat(Tail(ss))

\* x put into the sorted sequence s after every element that is not after it
InsertSorted(s, x, Before(_, _)) ==
    LET later == {j \in 1..Len(s) : Before(x, s[j])}
        at == IF later = {} THEN Len(s) + 1
              ELSE CHOOSE j \in later : \A i \in later : j <= i
    IN  SubSeq(s, 1, at - 1) \o <<x>> \o SubSeq(s, at, Len(s))

\* Array.prototype.sort(compare): a stable sort; Before(a, b) is compare(a, b) < 0
StableSort(s, Before(_, _)) ==
    LET f[i \in 0..Len(s)] ==
            IF i = 0 THEN <<>> ELSE InsertSorted(f[i - 1], s[i], Before)
    IN  f[Len(s)]

\* Array.prototype.indexOf: 0-based index of the first occurrence, -1 if none
IndexOf(s, x) ==
    LET at == {i \in 1..Len(s) : s[i] = x}
    IN  IF at = {} THEN -1 ELSE (CHOOSE i \in at : \A j \in at : i <= j) - 1

(***************************************************************************)
(* SemanticMatcher: configuration                                          *)
(***************************************************************************)
DefaultMaxConcurrentAIRequests == 3
TopCandidates == 5
MinScoredTextLength == 3
MinIndexedTextLength == 10
TruncateLength == 100
EllipsisLength == 3

\* a || b on an optional fraction, and on an optional integer: b when a is
\* undefined or 0 (an option left out is written as 0)
OrDefault(a, b) == IF a = QZero THEN b ELSE a
OrDefaultInt(a, b) == IF a = 0 THEN b ELSE a

\* constructor(ollamaHandler, config): this.config
SemanticMatcherConfig(raw) ==
    [minMatchScore |-> OrDefault(raw.minMatchScore, Q(1, 10)),
     aiEnhancedMode |-> raw.aiEnhancedMode # FALSE,
     fuzzyWeight |-> OrDefault(raw.fuzzyWeight, Q(3, 10)),
     cosineWeight |-> OrDefault(raw.cosineWeight, Q(4, 10)),
     aiWeight |-> OrDefault(raw.aiWeight, Q(3, 10)),
     maxConcurrentAIRequests |->
         OrDefaultInt(raw.maxConcurrentAIRequests,
                      DefaultMaxConcurrentAIRequests)]

\* constructor / resetStats: this.stats
ZeroStats ==
    [totalMatches |-> 0, aiEnhancedMatches |-> 0,
     traditionalMatches |-> 0, failedAIMatches |-> 0]

(***************************************************************************)
(* SemanticMatcher: search index and scores                                *)
(***************************************************************************)
\* content.type.toLowerCase().replace("-", "_")
TypeKey(type) ==
    CASE type = "Title" -> "title"
      [] type = "Section-header" -> "section_header"
      [] type = "Text" -> "text"
      [] type = "List-item" -> "list_item"
      [] type = "Caption" -> "caption"
      [] type = "Table" -> "table"
      [] type = "Formula" -> "formula"
      [] OTHER -> "other"

_getContentImportance(contentType) ==
    CASE contentType = "Title" -> Q(1, 1)
      [] contentType = "Section-header" -> Q(8, 10)
      [] contentType = "Text" -> Q(6, 10)
      [] contentType = "List-item" -> Q(5, 10)
      [] contentType = "Caption" -> Q(4, 10)
      [] contentType = "Table" -> Q(7, 10)
      [] contentType = "Formula" -> Q(3, 10)
      [] OTHER -> Q(4, 10)

\* the index entries of one section: its header, then its content longer than
\* 10 characters
SectionEntries(section) ==
    LET Indexed(content) ==
            Truthy(content.text) /\ Len(content.text) > MinIndexedTextLength
        Entry(content) ==
            [type |-> TypeKey(content.type), text |-> content.text,
             page |-> content.page, section |-> section.index,
             importance |-> _getContentImportance(content.type)]
    IN  <<[type |-> "section-header", text |-> section.title,
           page |-> section.page, section |-> section.index,
           importance |-> Q(8, 10)]>>
        \o SeqMap(SelectSeq(section.content, Indexed), Entry)

_createSearchIndex(ds) ==
    (IF Truthy(ds.title)
     THEN <<[type |-> "title", text |-> ds.title, page |-> 1,
             section |-> NoSection, importance |-> Q(1, 1)]>>
     ELSE <<>>)
    \o Flat(SeqMap(ds.sections, SectionEntries))

\* batching that advances by one item instead of by batchSize
_createBatchesSliding(items, batchSize) ==
    [b \in 1..Len(items) |->
        SubSeq(items, b, Min2(b + batchSize - 1, Len(items)))]

\* batching that ignores batchSize: all items in one batch
_createBatchesSingle(items, batchSize) ==
    IF items = <<>> THEN <<>> ELSE <<items>>

_createBatches(items, batchSize) ==
    LET n == (Len(items) + batchSize - 1) \div batchSize
    IN  [b \in 1..n |->
            SubSeq(items, (b - 1) * batchSize + 1,
                   Min2(b * batchSize, Len(items)))]

_truncateText(text, maxLength) ==
    IF ~Truthy(text) \/ Len(text) <= maxLength THEN text
    ELSE SubSeq(text, 1, maxLength - EllipsisLength) \o <<".", ".", ".">>

\* fuzzyMatch and cosineSimilarity of matching_utils.js: deterministic values
\* in [0,1] for a (topic, text) pair; sim holds the values they take
fuzzyMatch(topic, text) == sim[<<topic, text>>][1]
cosineSimilarity(topic, text) == sim[<<topic, text>>][2]

\* the weighted sum whatever the length of the text
_calculateTraditionalScoreAnyLength(topic, text) ==
    QAdd(QMul(fuzzyMatch(topic, text), config.fuzzyWeight),
         QMul(cosineSimilarity(topic, text), config.cosineWeight))

_calculateTraditionalScore(topic, text) ==
    IF ~Truthy(text) \/ Len(text) < MinScoredTextLength THEN QZero
    ELSE QAdd(QMul(fuzzyMatch(topic, text), config.fuzzyWeight),
              QMul(cosineSimilarity(topic, text), config.cosineWeight))

\* the blend taken over the traditional score as it is, not normalized
_calculateFinalScoreRaw(traditionalScore, aiScore) ==
    LET normalizedTraditional ==
            QDiv(traditionalScore,
                 QAdd(config.fuzzyWeight, config.cosineWeight))
    IN  IF ~ollamaHandler \/ ~config.aiEnhancedMode \/ aiScore = QZero
        THEN normalizedTraditional
        ELSE QAdd(QMul(traditionalScore, QSub(QOne, config.aiWeight)),
                  QMul(aiScore, config.aiWeight))

_calculateFinalScore(traditionalScore, aiScore) ==
    LET normalizedTraditional ==
            QDiv(traditionalScore,
                 QAdd(config.fuzzyWeight, config.cosineWeight))
    IN  IF ~ollamaHandler \/ ~config.aiEnhancedMode \/ aiScore = QZero
        THEN normalizedTraditional
        ELSE QAdd(QMul(normalizedTraditional, QSub(QOne, config.aiWeight)),
                  QMul(aiScore, config.aiWeight))

(***************************************************************************)
(* OllamaHandler: the relevance judge                                      *)
(***************************************************************************)
MaxRetries == 3
MinJudgedTextLength == 10

Digits == <<"0", "1", "2", "3", "4", "5", "6", "7", "8", "9">>
IsDigit(ch) == \E d \in 1..Len(Digits) : Digits[d] = ch
DigitValue(ch) == (CHOOSE d \in 1..Len(Digits) : Digits[d] = ch) - 1

\* the last index of the run of digits of s that starts at i (i - 1 if none)
DigitRunEnd(s, i) ==
    LET stops == {j \in i..Len(s) : ~IsDigit(s[j])}
    IN  IF stops = {} THEN Len(s)
        ELSE (CHOOSE j \in stops : \A k \in stops : j <= k) - 1

\* the number written by the digits s[i..j] (0 for an empty run)
DigitsValue(s, i, j) ==
    LET v[k \in (i - 1)..j] ==
            IF k < i THEN 0 ELSE 10 * v[k - 1] + DigitValue(s[k])
    IN  v[j]

Pow10(n) == LET p[k \in 0..n] == IF k = 0 THEN 1 ELSE 10 * p[k - 1] IN p[n]

\* parseFloat(response.match(/\d*\.?\d+/)?.[0] || "0")
ParseScore(response) ==
    LET n == Len(response)
        starts == {i \in 1..n :
                     \/ IsDigit(response[i])
                     \/ (response[i] = "." /\ i < n /\ IsDigit(response[i + 1]))}
    IN  IF starts = {} THEN QZero
        ELSE LET i == CHOOSE a \in starts : \A b \in starts : a <= b
                 e1 == DigitRunEnd(response, i)
                 hasFraction ==
                     /\ e1 + 2 <= n
                     /\ response[e1 + 1] = "."
                     /\ IsDigit(response[e1 + 2])
                 e2 == DigitRunEnd(response, e1 + 2)
             IN  IF hasFraction
                 THEN QAdd(Q(DigitsValue(response, i, e1), 1),
                           Q(DigitsValue(response, e1 + 2, e2),
                             Pow10(e2 - e1 - 1)))
                 ELSE Q(DigitsValue(response, i, e1), 1)

\* a judge that answers a neutral 0.5 when its prompt failed
getSemanticRelevanceNeutral(outcome) ==
    IF outcome.ok
    THEN [rejected |-> FALSE,
          value |-> QMax(QZero, QMin(QOne, ParseScore(outcome.response)))]
    ELSE [rejected |-> FALSE, value |-> Q(1, 2)]

\* a judge that returns the parsed number as it is
getSemanticRelevanceUnclamped(outcome) ==
    IF outcome.ok
    THEN [rejected |-> FALSE, value |-> ParseScore(outcome.response)]
    ELSE [rejected |-> FALSE, value |-> QZero]

\* what a getSemanticRelevance call settles with, given how its executePrompt
\* ended: outcome.ok with the (trimmed, non-empty) response of the first
\* good attempt, or ~outcome.ok after maxRetries failed attempts
getSemanticRelevance(outcome) ==
    IF outcome.ok
    THEN [rejected |-> FALSE,
          value |-> QMax(QZero, QMin(QOne, ParseScore(outcome.response)))]
    ELSE [rejected |-> FALSE, value |-> QZero]

\* getSemanticRelevance on a text that is missing or shorter than 10
\* characters: 0, with no prompt executed
NeedsPrompt(text) == Truthy(text) /\ Len(text) >= MinJudgedTextLength

(***************************************************************************)
(* SemanticMatcher: findBestMatches and _findTopicMatches                  *)
(*                                                                         *)
(* The matcher runs on one thread: a step of the model is one task of the  *)
(* event loop (the call of findBestMatches, or one event of a judge        *)
(* process) together with every continuation it makes ready.  st is the    *)
(* matcher's state inside such a step.                                     *)
(***************************************************************************)
\* the arguments of the findBestMatches call in progress
documentStructure == analysisResults[docNo].structure
filename == analysisResults[docNo].filename

Cur ==
    [mpc |-> mpc, searchIndex |-> searchIndex, topicBatches |-> topicBatches,
     batchNo |-> batchNo, runs |-> runs, calls |-> calls, stats |-> stats,
     matches |-> matches, returned |-> returned, issued |-> issued]

\* candidates.sort((a, b) => b.traditionalScore - a.traditionalScore)
CandidateBefore(a, b) == QLt(b.traditionalScore, a.traditionalScore)

\* lines 85-104: the candidates of a topic, best traditional score first
Candidates(topic, index) ==
    LET Scored(element) ==
            [element |-> element,
             traditionalScore |->
                 _calculateTraditionalScore(topic, element.text),
             aiScore |-> QZero]
        Positive(c) == QLt(QZero, c.traditionalScore)
    IN  StableSort(SelectSeq(SeqMap(index, Scored), Positive), CandidateBefore)

\* every candidate is handed to the judge
TopCountAll(candidates) == Len(candidates)

\* candidates.slice(0, 5): how many candidates are handed to the judge
TopCount(candidates) == Min2(TopCandidates, Len(candidates))

\* lines 142-165: the matches of a topic from its candidates
TopicMatches(topic, topicIndex, candidates) ==
    LET Final(c) == _calculateFinalScore(c.traditionalScore, c.aiScore)
        Kept(c) == QLeq(config.minMatchScore, Final(c))
        Match(c) ==
            [document |-> filename,
             topic |-> topic,
             section_title |-> _truncateText(c.element.text, TruncateLength),
             page_number |-> c.element.page,
             importance_rank |-> topicIndex + 1,
             match_score |-> ToFixed3(Final(c)),
             match_type |-> c.element.type,
             traditional_score |-> ToFixed3(c.traditionalScore),
             ai_score |-> ToFixed3(c.aiScore),
             element_importance |-> c.element.importance]
    IN  SeqMap(SelectSeq(candidates, Kept), Match)

\* the judge is used for a topic (lines 108-112)
UsesJudge(candidates) ==
    ollamaHandler /\ config.aiEnhancedMode /\ TopCount(candidates) > 0

\* _findTopicMatches up to its await: the candidates are computed and one
\* judge call is issued per top candidate.  A call on a text the judge
\* answers without a prompt is settled with 0 by the time the step ends.
InvokeFindTopicMatches(st, topic) ==
    LET candidates == Candidates(topic, st.searchIndex)
        rid == Len(st.runs) + 1
        n == IF UsesJudge(candidates) THEN TopCount(candidates) ELSE 0
        Call(c) ==
            LET text == candidates[c].element.text
            IN  [run |-> rid, cand |-> c, batch |-> st.batchNo,
                 state |-> IF NeedsPrompt(text) THEN "pending" ELSE "settled",
                 attempt |-> IF NeedsPrompt(text) THEN 1 ELSE 0,
                 sleeping |-> FALSE,
                 slept |-> <<>>,
                 killed |-> 0,
                 failed |-> FALSE]
        new == [c \in 1..n |-> Call(c)]
        answered == Cardinality({c \in 1..n : new[c].state = "settled"})
    IN  [st EXCEPT
            !.runs = Append(@, [status |-> "running", topic |-> topic,
                                topicIndex |-> IndexOf(topics, topic),
                                batch |-> st.batchNo,
                                candidates |-> candidates,
                                matches |-> <<>>]),
            !.calls = @ \o new,
            !.issued = @ + n,
            !.stats.aiEnhancedMatches = @ + answered]

\* lines 114-131: the continuation of one judge call that settled with result
SettleCall(st, c, result, exhausted) ==
    LET call == st.calls[c]
    IN  [st EXCEPT
            !.calls[c].state = "settled",
            !.calls[c].failed = exhausted,
            !.runs[call.run].candidates[call.cand].aiScore =
                IF result.rejected THEN @ ELSE result.value,
            !.stats.aiEnhancedMatches = IF result.rejected THEN @ ELSE @ + 1,
            !.stats.failedAIMatches = IF result.rejected THEN @ + 1 ELSE @]

\* a _findTopicMatches that returns its matches and counts none of them
FinishRunUncounted(st, r) ==
    LET run == st.runs[r]
        found == TopicMatches(run.topic, run.topicIndex, run.candidates)
    IN  [st EXCEPT
            !.runs[r].status = "done",
            !.runs[r].matches = found]

\* lines 142-172: _findTopicMatches after its await
FinishRun(st, r) ==
    LET run == st.runs[r]
        found == TopicMatches(run.topic, run.topicIndex, run.candidates)
    IN  [st EXCEPT
            !.runs[r].status = "done",
            !.runs[r].matches = found,
            !.stats.totalMatches = @ + Len(found),
            !.stats.traditionalMatches =
                IF ~ollamaHandler \/ ~config.aiEnhancedMode
                THEN @ + Len(found) ELSE @]

\* the loop body up to its await: batch.map(... _findTopicMatches ...)
StartBatch(st, k) ==
    LET batch == st.topicBatches[k]
        f[j \in 0..Len(batch)] ==
            IF j = 0 THEN [st EXCEPT !.batchNo = k]
            ELSE InvokeFindTopicMatches(f[j - 1], batch[j])
    IN  f[Len(batch)]

\* a judge call of run r has settled, or the run has none
RunReadyOnFirst(st, r) ==
    /\ st.runs[r].status = "running"
    /\ \/ \A c \in 1..Len(st.calls) : st.calls[c].run # r
       \/ \E c \in 1..Len(st.calls) :
              st.calls[c].run = r /\ st.calls[c].state = "settled"

\* every judge call of run r has settled: Promise.all(aiPromises) resolves
RunReady(st, r) ==
    /\ st.runs[r].status = "running"
    /\ \A c \in 1..Len(st.calls) :
          st.calls[c].run = r => st.calls[c].state = "settled"

\* await Promise.all(batchPromises) resolves: every topic of the batch is done
BatchResolved(st) ==
    \A r \in 1..Len(st.runs) :
        st.runs[r].batch = st.batchNo => st.runs[r].status = "done"

\* batchResults.flat()
BatchResults(st) ==
    LET OfBatch(run) == run.batch = st.batchNo
        Found(run) == run.matches
    IN  Flat(SeqMap(SelectSeq(st.runs, OfBatch), Found))

\* the comparator with the score difference the other way round
MatchBeforeAscending(a, b) ==
    \/ a.importance_rank < b.importance_rank
    \/ /\ a.importance_rank = b.importance_rank
       /\ QLt(a.match_score, b.match_score)

\* matches.sort(...): compare(a, b) < 0
MatchBefore(a, b) ==
    \/ a.importance_rank < b.importance_rank
    \/ /\ a.importance_rank = b.importance_rank
       /\ QLt(b.match_score, a.match_score)

RECURSIVE Advance(_)
\* every continuation that is ready runs: topics whose judge calls have all
\* settled build their matches; a batch whose topics are all done is pushed
\* and the next batch started, or the matches sorted and returned
Advance(st) ==
    LET ready == {r \in 1..Len(st.runs) : RunReady(st, r)}
    IN  IF st.mpc # "awaitBatch" THEN st
        ELSE IF ready # {}
        THEN Advance(FinishRun(st, CHOOSE r \in ready : \A q \in ready : r <= q))
        ELSE IF BatchResolved(st)
        THEN LET pushed == [st EXCEPT !.matches = @ \o BatchResults(st)]
             IN  IF st.batchNo < Len(st.topicBatches)
                 THEN Advance(StartBatch(pushed, st.batchNo + 1))
                 ELSE [pushed EXCEPT
                          !.matches = StableSort(@, MatchBefore),
                          !.returned = @ + Len(pushed.matches),
                          !.mpc = "done"]
        ELSE st

Commit(st) ==
    /\ mpc' = st.mpc
    /\ searchIndex' = st.searchIndex
    /\ topicBatches' = st.topicBatches
    /\ batchNo' = st.batchNo
    /\ runs' = st.runs
    /\ calls' = st.calls
    /\ stats' = st.stats
    /\ matches' = st.matches
    /\ returned' = st.returned
    /\ issued' = st.issued

(***************************************************************************)
(* Inputs of the matcher                                                   *)
(***************************************************************************)
\* the longest topic list without and with a judge at work, and the number
\* of judge calls with a failing attempt during one findBestMatches
MaxTopics == 3
MaxJudgedTopics == 2
MaxFailingCalls == 1

\* topic lists up to renaming of the phrases: the first phrase is "A"
TopicNames == {"A", "B"}
TopicLists(longest) ==
    {ts \in UNION {[1..n -> TopicNames] : n \in 0..longest} :
        ts # <<>> => ts[1] = "A"}

\* topic lists of distinct phrases, up to renaming of the phrases
DistinctTopicLists(longest) ==
    {SubSeq(<<"A", "B", "C", "D">>, 1, n) : n \in 0..Min2(longest, 4)}

TextGuide == <<"G", "u", "i", "d", "e">>
TextAb == <<"A", "b">>
TextFormFields == <<"F", "o", "r", "m", " ", "F", "i", "e", "l", "d", "s">>
TextUseTheTool ==
    <<"U", "s", "e", " ", "t", "h", "e", " ", "t", "o", "o", "l">>
TextShortText == <<"s", "h", "o", "r", "t", " ", "t", "e", "x", "t">>

\* document structures as createDocumentStructure returns them
SampleStructures ==
    {[title |-> NullText,
      sections |-> <<[title |-> TextFormFields, page |-> 3, index |-> 1,
                      content |-> <<[type |-> "Text", text |-> TextUseTheTool,
                                     page |-> 3]>>]>>],
     [title |-> TextGuide,
      sections |-> <<[title |-> TextAb, page |-> 2, index |-> 1,
                      content |-> <<[type |-> "List-item",
                                     text |-> TextShortText,
                                     page |-> 2]>>]>>],
     [title |-> NullText, sections |-> <<>>]}

\* a structure with one element more than the judge is asked about per topic
WideStructure ==
    [title |-> NullText,
     sections |-> <<[title |-> TextAb, page |-> 1, index |-> 1,
                     content |-> [k \in 1..(TopCandidates + 1) |->
                                     [type |-> "Text",
                                      text |-> TextUseTheTool \o
                                                   <<Digits[k + 1]>>,
                                      page |-> 1]]]>>]

\* the (fuzzy, cosine) values a pair of topic and text may have
SimLevels == {<<QZero, QZero>>, <<Q(1, 2), QZero>>, <<QOne, QOne>>}

\* the texts of a structure's search index
IndexTexts(ds) ==
    LET index == _createSearchIndex(ds)
    IN  {index[i].text : i \in 1..Len(index)}

\* the document lists: one document, and two documents
Documents(names, structures) ==
    [i \in 1..Len(names) |->
        [filename |-> names[i], structure |-> structures[i]]]
OneDocument ==
    {Documents(<<"a.pdf">>, <<ds>>) : ds \in SampleStructures}
TwoDocuments ==
    {Documents(<<"a.pdf", "b.pdf">>, <<ds1, ds2>>) :
        ds1 \in SampleStructures, ds2 \in SampleStructures}

AllIndexTexts(docs) ==
    UNION {IndexTexts(docs[i].structure) : i \in 1..Len(docs)}

\* the similarity tables for a topic list and documents: every table, and
\* the tables in which a text is as similar to one topic as to another
SimTables(ts, docs) ==
    [{ts[i] : i \in 1..Len(ts)} \X AllIndexTexts(docs) -> SimLevels]
UniformSimTables(ts, docs) ==
    {[p \in {ts[i] : i \in 1..Len(ts)} \X AllIndexTexts(docs) |->
         level[p[2]]] :
        level \in [AllIndexTexts(docs) -> SimLevels]}

\* the tables of the wide structure: the first element's similarity varies,
\* every other text is as similar as can be
WideSimTables(ts, docs) ==
    LET first == docs[1].structure.sections[1].content[1].text
    IN  {[p \in {ts[i] : i \in 1..Len(ts)} \X AllIndexTexts(docs) |->
             IF p[2] = first THEN level ELSE <<QOne, QOne>>] :
            level \in SimLevels}

\* the tables in which every text is as similar to every topic
LevelSimTables(ts, docs) ==
    {[p \in {ts[i] : i \in 1..Len(ts)} \X AllIndexTexts(docs) |-> level] :
        level \in SimLevels}

\* what the judge's model may answer to a prompt
Responses == {<<"0", ".", "5">>, <<"7">>}

\* the options handed to the constructor (0: option left out), and whether a
\* judge is handed over
Constructions ==
    LET Raw(min, mode, fw, cw, aw, width) ==
            [minMatchScore |-> min, aiEnhancedMode |-> mode,
             fuzzyWeight |-> fw, cosineWeight |-> cw, aiWeight |-> aw,
             maxConcurrentAIRequests |-> width]
    IN  {[handler |-> FALSE, raw |-> Raw(QZero, TRUE, QZero, QZero, QZero, 0)],
         [handler |-> FALSE,
          raw |-> Raw(QZero, TRUE, QZero, QZero, Q(1, 2), 0)],
         [handler |-> FALSE,
          raw |-> Raw(Q(2142, 10000), TRUE, Q(3, 10), Q(4, 10), Q(3, 10), 2)],
         [handler |-> FALSE,
          raw |-> Raw(Q(1, 10), TRUE, Q(9, 10), Q(9, 10), Q(3, 10), 2)],
         [handler |-> TRUE,
          raw |-> Raw(Q(1, 10), FALSE, Q(3, 10), Q(4, 10), Q(3, 10), 2)],
         [handler |-> TRUE,
          raw |-> Raw(Q(1, 10), TRUE, Q(3, 10), Q(4, 10), Q(3, 10), 1)],
         [handler |-> TRUE,
          raw |-> Raw(Q(9, 10), TRUE, Q(3, 10), Q(4, 10), Q(1, 2), 2)]}

(***************************************************************************)
(* The matcher's specification                                             *)
(***************************************************************************)
AnalyzerIdle ==
    /\ pageResults = <<>>
    /\ apc = "off"
    /\ pageIdx = 0
    /\ sortedDetections = <<>>
    /\ structure = <<>>
    /\ currentSection = <<>>
    /\ allText = <<>>
    /\ results = <<>>

\* no run of the pipeline
NoEffects ==
    [pdfs |-> 0, structures |-> 0, matchings |-> 0, files |-> 0,
     cleanups |-> 0]
\* no call of getSemanticRelevance on its own
JudgeIdle ==
    /\ jpc = "off"
    /\ judged = [topic |-> "A", text |-> NullText]
    /\ jattempt = 0
    /\ jerror = "none"
    /\ joutcome = <<>>
    /\ relevance = QZero

\* CONFIG.matching
ConfigMatching ==
    [minMatchScore |-> Q(1, 10), aiEnhancedMode |-> TRUE,
     fuzzyWeight |-> Q(3, 10), cosineWeight |-> Q(4, 10),
     aiWeight |-> Q(3, 10), maxConcurrentAIRequests |-> 3]

RunIdle ==
    /\ rpc = "off"
    /\ matching = <<>>
    /\ ollamaAvailable = "untested"
    /\ input = [documents |-> [kind |-> "array", length |-> 0],
                persona |-> "role", job_to_be_done |-> "task"]
    /\ runError = "none"
    /\ effects = NoEffects

MatcherStart ==
    /\ docNo = 1
    /\ allMatches = <<>>
    /\ totalMatches = 0
    /\ refinedAnalysis = <<>>
    /\ mpc = "idle"
    /\ searchIndex = <<>>
    /\ topicBatches = <<>>
    /\ batchNo = 0
    /\ runs = <<>>
    /\ calls = <<>>
    /\ matches = <<>>
    /\ stats = ZeroStats
    /\ returned = 0
    /\ issued = 0

\* performSemanticMatching is about to call findBestMatches
MatcherIdle ==
    /\ ppc = "matching"
    /\ MatcherStart

\* the judge is not used: no handler, or AI mode switched off
TraditionalInit ==
    /\ \E c \in Constructions :
          /\ ~(c.handler /\ c.raw.aiEnhancedMode)
          /\ ollamaHandler = c.handler
          /\ config = SemanticMatcherConfig(c.raw)
    /\ topics \in TopicLists(MaxTopics)
    /\ analysisResults \in OneDocument
    /\ sim \in SimTables(topics, analysisResults)

\* the judge is not used, two documents
PipelineInit ==
    /\ \E c \in Constructions :
          /\ ~(c.handler /\ c.raw.aiEnhancedMode)
          /\ ollamaHandler = c.handler
          /\ config = SemanticMatcherConfig(c.raw)
    /\ topics \in TopicLists(MaxTopics)
    /\ analysisResults \in TwoDocuments
    /\ sim \in UniformSimTables(topics, analysisResults)

\* the judge is used
JudgedInit ==
    /\ \E c \in Constructions :
          /\ c.handler /\ c.raw.aiEnhancedMode
          /\ ollamaHandler = c.handler
          /\ config = SemanticMatcherConfig(c.raw)
    /\ topics \in DistinctTopicLists(MaxJudgedTopics)
    /\ analysisResults \in OneDocument
    /\ sim \in LevelSimTables(topics, analysisResults)

\* the judge is used on a structure with more elements than it is asked about
WideInit ==
    /\ \E c \in Constructions :
          /\ c.handler /\ c.raw.aiEnhancedMode
          /\ ollamaHandler = c.handler
          /\ config = SemanticMatcherConfig(c.raw)
    /\ topics = <<"A">>
    /\ analysisResults = Documents(<<"a.pdf">>, <<WideStructure>>)
    /\ sim \in WideSimTables(topics, analysisResults)

Init ==
    /\ TraditionalInit \/ PipelineInit \/ JudgedInit \/ WideInit
    /\ MatcherIdle
    /\ AnalyzerIdle
    /\ RunIdle
    /\ JudgeIdle

\* line 45: await this._sleep(1000 * attempt), in milliseconds
BackoffMs == 1000
BackoffSleepConstant(attempt) == BackoffMs
BackoffSleep(attempt) == BackoffMs * attempt

_getMatchTypeLabel(matchType) ==
    CASE matchType = "title" -> "Document Title"
      [] matchType \in {"section-header", "section_header"} -> "Section Header"
      [] matchType = "text" -> "Content"
      [] matchType \in {"list-item", "list_item"} -> "List Item"
      [] matchType = "caption" -> "Caption"
      [] matchType = "table" -> "Table"
      [] matchType = "formula" -> "Formula"
      [] OTHER -> "Content"

_getConfidenceLevel(score) ==
    IF QLeq(Q(8, 10), score) THEN "High"
    ELSE IF QLeq(Q(5, 10), score) THEN "Medium"
    ELSE IF QLeq(Q(3, 10), score) THEN "Low"
    ELSE "Very Low"

\* refined_text is the label, ": " and the section title, in this order
generateRefinedAnalysis(ms) ==
    SeqMap(ms, LAMBDA match :
        [document |-> match.document,
         page_number |-> match.page_number,
         refined_text |-> <<_getMatchTypeLabel(match.match_type), ": ">>
                          \o match.section_title,
         topic_matched |-> match.topic,
         match_score |-> match.match_score,
         importance_rank |-> match.importance_rank,
         traditional_score |-> match.traditional_score,
         ai_enhanced |-> QLt(QZero, match.ai_score),
         ai_score |-> match.ai_score,
         confidence_level |-> _getConfidenceLevel(match.match_score)])

\* the number of judge calls of which an attempt has failed so far
FailingCalls(cs) ==
    Cardinality({i \in 1..Len(cs) :
                    cs[i].attempt > 1 \/ cs[i].sleeping \/ cs[i].failed})

\* performSemanticMatching calls findBestMatches(topics, analysis.structure,
\* analysis.filename) for the document at docNo
FindBestMatches ==
    /\ ppc = "matching"
    /\ mpc = "idle"
    /\ LET st == [Cur EXCEPT
                     !.mpc = "awaitBatch",
                     !.matches = <<>>,
                     !.runs = <<>>,
                     !.calls = <<>>,
                     !.batchNo = 0,
                     !.searchIndex = _createSearchIndex(documentStructure),
                     !.topicBatches =
                         _createBatches(topics, config.maxConcurrentAIRequests)]
       IN  Commit(IF st.topicBatches = <<>>
                  THEN [st EXCEPT !.matches = StableSort(@, MatchBefore),
                                  !.mpc = "done"]
                  ELSE Advance(StartBatch(st, 1)))
    /\ UNCHANGED <<inputs, ppc, docNo, allMatches, totalMatches,
                   refinedAnalysis>>
    /\ UNCHANGED <<avars, rvars, jvars>>

\* an attempt of a judge call's executePrompt ends with a non-empty response
AttemptSucceeds(c, response) ==
    /\ calls[c].state = "pending" /\ ~calls[c].sleeping
    /\ Commit(Advance(SettleCall(
           Cur, c,
           getSemanticRelevance([ok |-> TRUE, response |-> response]),
           FALSE)))
    /\ UNCHANGED <<inputs, ppc, docNo, allMatches, totalMatches,
                   refinedAnalysis>>
    /\ UNCHANGED <<avars, rvars, jvars>>

\* an attempt of a judge call's executePrompt fails (timeout, exit code, spawn
\* error or empty response): the next attempt follows the backoff sleep, or
\* executePrompt throws after the last one
AttemptFails(c) ==
    /\ calls[c].state = "pending" /\ ~calls[c].sleeping
    /\ calls[c].attempt > 1 \/ FailingCalls(calls) < MaxFailingCalls
    /\ IF calls[c].attempt < MaxRetries
       THEN Commit([Cur EXCEPT
                       !.calls[c].sleeping = TRUE,
                       !.calls[c].slept =
                           Append(@, BackoffSleep(calls[c].attempt))])
       ELSE Commit(Advance(SettleCall(
                Cur, c,
                getSemanticRelevance([ok |-> FALSE, response |-> <<>>]),
                TRUE)))
    /\ UNCHANGED <<inputs, ppc, docNo, allMatches, totalMatches,
                   refinedAnalysis>>
    /\ UNCHANGED <<avars, rvars, jvars>>

\* the backoff sleep of a judge call's executePrompt is over: the loop starts
\* the next attempt
SleepEnds(c) ==
    /\ calls[c].state = "pending" /\ calls[c].sleeping
    /\ Commit([Cur EXCEPT !.calls[c].sleeping = FALSE,
                          !.calls[c].attempt = @ + 1])
    /\ UNCHANGED <<inputs, ppc, docNo, allMatches, totalMatches,
                   refinedAnalysis>>
    /\ UNCHANGED <<avars, rvars, jvars>>

\* performSemanticMatching after findBestMatches returned: the matches are
\* appended; the loop goes on to the next document, or ends and all matches
\* are sorted
CollectMatches ==
    /\ ppc = "matching"
    /\ mpc = "done"
    /\ mpc' = "idle"
    /\ IF docNo < Len(analysisResults)
       THEN /\ allMatches' = allMatches \o matches
            /\ docNo' = docNo + 1
            /\ UNCHANGED <<ppc, totalMatches>>
       ELSE /\ allMatches' = StableSort(allMatches \o matches, MatchBefore)
            /\ totalMatches' = Len(allMatches \o matches)
            /\ ppc' = "done"
            /\ UNCHANGED docNo
    /\ UNCHANGED <<inputs, stats, searchIndex, topicBatches, batchNo, runs,
                   calls, matches, refinedAnalysis, returned, issued>>
    /\ UNCHANGED <<avars, rvars, jvars>>

\* generateFinalOutput: the refined analysis of the matches
GenerateFinalOutput ==
    /\ ppc = "done"
    /\ ppc' = "refined"
    /\ refinedAnalysis' = generateRefinedAnalysis(allMatches)
    /\ UNCHANGED <<inputs, stats, mpc, searchIndex, topicBatches, batchNo,
                   runs, calls, matches, docNo, allMatches, totalMatches,
                   returned, issued>>
    /\ UNCHANGED <<avars, rvars, jvars>>

Next ==
    \/ FindBestMatches
    \/ CollectMatches
    \/ GenerateFinalOutput
    \/ \E c \in 1..Len(calls) : \E response \in Responses :
          AttemptSucceeds(c, response)
    \/ \E c \in 1..Len(calls) : AttemptFails(c)
    \/ \E c \in 1..Len(calls) : SleepEnds(c)

Spec == Init /\ [][Next]_vars

(***************************************************************************)
(* The matcher with a judge whose process may never answer                 *)
(***************************************************************************)
\* the timer of _runOllamaCommand expires while the attempt of judge call c
\* is in flight: the process is sent SIGTERM and the attempt is rejected; the
\* next attempt follows the backoff sleep, or executePrompt throws after the
\* last one
TimerExpires(c) ==
    /\ calls[c].state = "pending" /\ ~calls[c].sleeping
    /\ LET st == [Cur EXCEPT !.calls[c].killed = @ + 1]
       IN  IF calls[c].attempt < MaxRetries
           THEN Commit([st EXCEPT
                           !.calls[c].sleeping = TRUE,
                           !.calls[c].slept =
                               Append(@, BackoffSleep(calls[c].attempt))])
           ELSE Commit(Advance(SettleCall(
                    st, c,
                    getSemanticRelevance([ok |-> FALSE, response |-> <<>>]),
                    TRUE)))
    /\ UNCHANGED <<inputs, ppc, docNo, allMatches, totalMatches,
                   refinedAnalysis>>
    /\ UNCHANGED <<avars, rvars, jvars>>

\* the tables in which at most one text, one that is long enough for a
\* prompt, is similar to the topics
OneTextSimTables(ts, docs) ==
    {[p \in {ts[i] : i \in 1..Len(ts)} \X AllIndexTexts(docs) |->
         IF p[2] = text THEN level ELSE <<QZero, QZero>>] :
        text \in {t \in AllIndexTexts(docs) : NeedsPrompt(t)},
        level \in SimLevels}

\* the judge is used, on one document
InitLive ==
    /\ \E c \in Constructions :
          /\ c.handler /\ c.raw.aiEnhancedMode
          /\ ollamaHandler = c.handler
          /\ config = SemanticMatcherConfig(c.raw)
    /\ topics \in DistinctTopicLists(MaxJudgedTopics)
    /\ analysisResults \in OneDocument
    /\ sim \in OneTextSimTables(topics, analysisResults)
    /\ MatcherIdle
    /\ AnalyzerIdle
    /\ RunIdle
    /\ JudgeIdle

NextLive ==
    \/ Next
    \/ \E c \in 1..Len(calls) : TimerExpires(c)

\* findBestMatches is about to be called
CallReady == ppc = "matching" /\ mpc = "idle"

\* no timer is set for an attempt
NoTimerRunning == FALSE

\* the timer of an attempt is running
TimerRunning ==
    \E c \in 1..Len(calls) : calls[c].state = "pending" /\ ~calls[c].sleeping

\* WF_vars(FindBestMatches), with ENABLED <<FindBestMatches>>_vars written
\* as the state predicate it is
CallFairness ==
    []<>(~CallReady) \/ []<><<FindBestMatches>>_vars

\* WF_vars(\E c : TimerExpires(c)), with ENABLED written as the state
\* predicate it is
TimerFairness ==
    []<>(~TimerRunning) \/ []<><<\E c \in 1..Len(calls) : TimerExpires(c)>>_vars

\* the event loop runs every task that is ready, every timer that was set
\* fires; nothing is assumed of the judge's process
SpecLive ==
    /\ InitLive
    /\ [][NextLive]_vars
    /\ WF_vars(CollectMatches)
    /\ WF_vars(GenerateFinalOutput)
    /\ WF_vars(\E c \in 1..Len(calls) : SleepEnds(c))
    /\ CallFairness
    /\ TimerFairness

(***************************************************************************)
(* Properties of the matcher                                               *)
(***************************************************************************)
Indices(s) == 1..Len(s)
Pending == {c \in Indices(calls) : calls[c].state = "pending"}
Width == config.maxConcurrentAIRequests

\* ms is in the order of the comparator: ranks ascending, and scores
\* descending among equal ranks
Sorted(ms) ==
    \A i, j \in Indices(ms) :
        i < j =>
            /\ ms[i].importance_rank <= ms[j].importance_rank
            /\ ms[i].importance_rank = ms[j].importance_rank
                  => QLeq(ms[j].match_score, ms[i].match_score)

\* C1: the list findBestMatches returns, and the cross-document list of
\* performSemanticMatching, are ordered by non-decreasing importance_rank
\* and, among equal ranks, by non-increasing match_score
C1_MatchesSorted ==
    /\ mpc = "done" => Sorted(matches)
    /\ ppc = "done" => Sorted(allMatches)

\* two documents were matched; the final list holds two matches of one rank
\* with different scores, and a match of the second document ahead of a match
\* of the first
C1_Witness ==
    /\ ppc = "done"
    /\ \E i, j \in Indices(allMatches) :
          /\ i < j
          /\ allMatches[i].importance_rank = allMatches[j].importance_rank
          /\ allMatches[i].match_score # allMatches[j].match_score
    /\ \E i, j \in Indices(allMatches) :
          /\ i < j
          /\ allMatches[i].document = "b.pdf"
          /\ allMatches[j].document = "a.pdf"
          /\ allMatches[i].importance_rank < allMatches[j].importance_rank

\* C2: every match findBestMatches returns has a stored match_score that is
\* not below the configured minMatchScore
C2_ScoreAtLeastMinimum ==
    mpc = "done" =>
        \A i \in Indices(matches) :
            QLeq(config.minMatchScore, matches[i].match_score)

InUnitInterval(x) == QLeq(QZero, x) /\ QLeq(x, QOne)

\* C3: every match findBestMatches returns has match_score,
\* traditional_score and ai_score within [0,1]
C3_ScoresInUnitInterval ==
    mpc = "done" =>
        \A i \in Indices(matches) :
            /\ InUnitInterval(matches[i].match_score)
            /\ InUnitInterval(matches[i].traditional_score)
            /\ InUnitInterval(matches[i].ai_score)

\* C4: every match emitted for the topic at position i of the topic list has
\* importance_rank = i (the runs are the _findTopicMatches invocations, in
\* the order of the topic list)
C4_RankIsPosition ==
    \A r \in Indices(runs) :
        \A i \in Indices(runs[r].matches) :
            runs[r].matches[i].importance_rank = r

\* the normalized traditional score of a candidate
Normalized(c) ==
    QDiv(c.traditionalScore, QAdd(config.fuzzyWeight, config.cosineWeight))

\* the matches of run r emitted for its candidate number k
MatchesOf(r, k) ==
    {m \in {runs[r].matches[i] : i \in Indices(runs[r].matches)} :
        m.section_title =
            _truncateText(runs[r].candidates[k].element.text, TruncateLength)}

C6_BatchesInOrder ==
    /\ mpc # "idle" =>
          /\ Flat(topicBatches) = topics
          /\ \A b \in Indices(topicBatches) :
                /\ Len(topicBatches[b]) >= 1
                /\ Len(topicBatches[b]) <= Width
                /\ b < Len(topicBatches) => Len(topicBatches[b]) = Width
    /\ LET five == _createBatches(<<"A", "B", "A", "B", "A">>, 3)
       IN  five = <<(<<"A", "B", "A">>), (<<"B", "A">>)>>
    /\ \A c, d \in Indices(calls) :
          calls[c].batch < calls[d].batch => calls[c].state = "settled"

\* the second batch has a judge call in flight, after the calls of the first
\* batch settled
C6_Witness ==
    /\ Len(topicBatches) >= 2
    /\ \E c, d \in Indices(calls) :
          /\ calls[c].batch = 1
          /\ calls[d].batch = 2
          /\ calls[d].state = "pending"

\* C7 as stated: at most maxConcurrentAIRequests judge calls are in flight
C7_InFlightAtMostWidth ==
    Cardinality(Pending) <= Width

\* C7 as amended: at any moment at most maxConcurrentAIRequests topics have
\* judge calls in flight, each topic at most 5, hence at most
\* 5 * maxConcurrentAIRequests calls
C7_InFlightAtMostFivePerTopic ==
    /\ Cardinality({calls[c].run : c \in Pending}) <= Width
    /\ \A r \in Indices(runs) :
          Cardinality({c \in Pending : calls[c].run = r}) <= 5
    /\ Cardinality(Pending) <= 5 * Width

\* more judge calls are in flight than the batch width: a topic with more
\* than 5 candidates has its 5 calls in flight
C7_Witness ==
    /\ Cardinality(Pending) > Width
    /\ \E r \in Indices(runs) :
          /\ Len(runs[r].candidates) > 5
          /\ Cardinality({c \in Pending : calls[c].run = r}) = 5

\* C8: every judge call that failed on all its attempts has incremented
\* stats.failedAIMatches by one
C8_FailuresCounted ==
    stats.failedAIMatches =
        Cardinality({c \in Indices(calls) : calls[c].failed})

\* the final score of a candidate, from the formula of C9
C9_Expected(c) ==
    IF ~ollamaHandler \/ ~config.aiEnhancedMode \/ c.aiScore = QZero
    THEN QDiv(c.traditionalScore,
              QAdd(config.fuzzyWeight, config.cosineWeight))
    ELSE QAdd(QMul(QDiv(c.traditionalScore,
                        QAdd(config.fuzzyWeight, config.cosineWeight)),
                   QSub(QOne, config.aiWeight)),
              QMul(c.aiScore, config.aiWeight))

minTextLength == 10
sectionThreshold == 70
titleThreshold == 80
ReadingBand == 20
MinSectionTitleLength == 3
MinInferredTitleLength == 5

Letters ==
    {"a", "b", "c", "d", "e", "f", "g", "h", "i", "j", "k", "l", "m", "n",
    "o", "p", "q", "r", "s", "t", "u", "v", "w", "x", "y", "z", "A", "B",
    "C", "D", "E", "F", "G", "H", "I", "J", "K", "L", "M", "N", "O", "P",
    "Q", "R", "S", "T", "U", "V", "W", "X", "Y", "Z"}
IsSpace(ch) == ch \in {" ", "\t", "\n"}
\* \w, \s and the punctuation - . , ! ? : ; ( )
IsKept(ch) ==
    \/ ch \in Letters
    \/ IsDigit(ch)
    \/ ch = "_"
    \/ IsSpace(ch)
    \/ ch \in {"-", ".", ",", "!", "?", ":", ";", "(", ")"}

\* the elements of s at the indices that satisfy Keep, in order
SelectIndices(s, Keep(_)) ==
    LET f[i \in 0..Len(s)] ==
            IF i = 0 THEN <<>>
            ELSE IF Keep(i) THEN Append(f[i - 1], s[i]) ELSE f[i - 1]
    IN  f[Len(s)]

\* text.replace(/\s+/g, " ")
CollapseWhitespace(text) ==
    LET FirstOfRun(i) ==
            ~IsSpace(text[i]) \/ i = 1 \/ ~IsSpace(text[i - 1])
        Blank(ch) == IF IsSpace(ch) THEN " " ELSE ch
    IN  SeqMap(SelectIndices(text, FirstOfRun), Blank)

\* text.replace(/[^\w\s\-.,!?:;()]/g, "")
RemoveSpecial(text) == SelectSeq(text, IsKept)

\* text.trim()
Trim(text) ==
    LET solid == {i \in 1..Len(text) : ~IsSpace(text[i])}
    IN  IF solid = {} THEN <<>>
        ELSE SubSeq(text,
                    CHOOSE i \in solid : \A j \in solid : i <= j,
                    CHOOSE i \in solid : \A j \in solid : i >= j)

_cleanText(text) ==
    IF ~Truthy(text) THEN <<>>
    ELSE Trim(RemoveSpecial(CollapseWhitespace(text)))

\* cleanText.split(/\s+/).length
WordCount(text) ==
    IF \A i \in 1..Len(text) : IsSpace(text[i])
    THEN IF text = <<>> THEN 1 ELSE 2
    ELSE Cardinality({i \in 1..Len(text) :
                        /\ ~IsSpace(text[i])
                        /\ i = 1 \/ IsSpace(text[i - 1])})
         + (IF IsSpace(text[1]) THEN 1 ELSE 0)
         + (IF IsSpace(text[Len(text)]) THEN 1 ELSE 0)

\* text.includes(part)
Includes(text, part) ==
    \E i \in 0..(Len(text) - Len(part)) :
        SubSeq(text, i + 1, i + Len(part)) = part

OcrNotAvailable ==
    <<"O", "C", "R", " ", "n", "o", "t", " ", "a", "v", "a", "i", "l", "a", "b", "l", "e">>
ExtractionFailed ==
    <<"e", "x", "t", "r", "a", "c", "t", "i", "o", "n", " ", "f", "a", "i", "l", "e", "d">>

(***************************************************************************)
(* DocumentAnalyzer: createDocumentStructure                               *)
(***************************************************************************)
\* compare(a, b) < 0 for the reading-order sort of a page's detections
ReadingBefore(a, b) ==
    LET yDiff == a.center[2] - b.center[2]
    IN  IF Abs(yDiff) > ReadingBand THEN yDiff < 0
        ELSE a.center[1] - b.center[1] < 0

\* [...pageResult.detections].sort(...)
SortDetections(detections) == StableSort(detections, ReadingBefore)

\* the sort calls the comparator on every detection of a page that has two
\* or more, and the comparator throws on a detection without a center
SortThrows(detections) ==
    /\ Len(detections) >= 2
    /\ \E i \in 1..Len(detections) : detections[i].center = <<>>

\* the sort is done on the list itself
SortedInPlace(detections) == SortDetections(detections)

\* pageResult.detections after [...pageResult.detections].sort(...): the
\* copy is sorted, the list itself is as it was
AfterSortOfCopy(detections) == detections

\* a section left over from an earlier call
LeftoverSection == currentSection

\* let currentSection = null
NullSection == <<>>

\* a test that every section passes
NonEmptyContentOrNone(section) == Len(section.content) >= 0

\* section.content.length > 0
NonEmptyContent(section) == Len(section.content) > 0

\* the open section, if it has content, is pushed to structure.sections
CloseSection(sections, current) ==
    IF current # <<>> /\ NonEmptyContent(current[1])
    THEN Append(sections, current[1])
    ELSE sections

\* a comparator that also moves a section in front of one of the same page
PageBeforeOrSame(a, b) == a.page <= b.page

\* a.page - b.page < 0
PageBefore(a, b) == a.page < b.page

_postProcessStructure(st) ==
    LET Retained(section) ==
            NonEmptyContent(section)
            \/ Len(section.title) > MinSectionTitleLength
        sorted == StableSort(SelectSeq(st.sections, Retained), PageBefore)
    IN  [st EXCEPT
            !.sections = [i \in 1..Len(sorted) |->
                             [sorted[i] EXCEPT !.index = i]],
            !.title = IF /\ ~Truthy(st.title)
                         /\ sorted # <<>>
                         /\ Len(sorted[1].title) > MinInferredTitleLength
                      THEN sorted[1].title
                      ELSE st.title]

\* content.type.toLowerCase() of the labels content can have
ToLowerCase(label) ==
    CASE label = "Text" -> "text"
      [] label = "List-item" -> "list-item"
      [] label = "Caption" -> "caption"
      [] OTHER -> label

\* DocumentAnalyzer.createSearchIndex
createSearchIndex(st) ==
    LET Header(section) ==
            [type |-> "section-header", text |-> section.title,
             page |-> section.page, section |-> section.index,
             importance |-> Q(8, 10)]
        Entry(section, content) ==
            [type |-> ToLowerCase(content.type), text |-> content.text,
             page |-> content.page, section |-> section.index,
             importance |-> IF content.type = "Text"
                            THEN Q(6, 10) ELSE Q(4, 10)]
        OfSection(section) ==
            <<Header(section)>> \o
            [k \in 1..Len(section.content) |->
                Entry(section, section.content[k])]
    IN  (IF Truthy(st.title)
         THEN <<[type |-> "title", text |-> st.title, page |-> 1,
                 section |-> NoSection, importance |-> QOne]>>
         ELSE <<>>)
        \o Flat([i \in 1..Len(st.sections) |-> OfSection(st.sections[i])])

EmptyStructure ==
    [title |-> NullText, sections |-> <<>>, pages |-> <<>>,
     metadata |-> [totalElements |-> 0, textElements |-> 0,
                   sectionHeaders |-> 0, titles |-> 0]]

\* lines 131-142: the text a detection adds to allText
Accumulated(detection) ==
    LET raw == detection.extractedText
        clean == _cleanText(raw)
    IN  IF /\ Truthy(raw)
           /\ Len(raw) >= minTextLength
           /\ ~Includes(raw, OcrNotAvailable)
           /\ ~Includes(raw, ExtractionFailed)
           /\ Len(clean) >= minTextLength
        THEN clean \o <<"\n">>
        ELSE <<>>

\* lines 66-72: the counters after a detection
Counted(metadata, detection) ==
    [totalElements |-> metadata.totalElements + 1,
     titles |-> metadata.titles
                + (IF detection.label = "Title" THEN 1 ELSE 0),
     sectionHeaders |-> metadata.sectionHeaders
                + (IF detection.label = "Section-header" THEN 1 ELSE 0),
     textElements |-> metadata.textElements
                + (IF detection.label \in {"Text", "List-item"} THEN 1 ELSE 0)]

detection == Head(sortedDetections)
pageNumber == pageResults[pageIdx].pageNumber

IsTitle(d) ==
    /\ d.label = "Title"
    /\ ~Truthy(structure.title)
    /\ d.confidence >= titleThreshold
    /\ Truthy(d.extractedText)

\* a header test that forgets the confidence threshold
IsSectionHeaderAnyConfidence(d) ==
    /\ d.label = "Section-header"
    /\ Truthy(d.extractedText)

IsSectionHeader(d) ==
    /\ d.label = "Section-header"
    /\ d.confidence >= sectionThreshold
    /\ Truthy(d.extractedText)

IsContent(d) ==
    /\ currentSection # <<>>
    /\ d.label \in {"Text", "List-item", "Caption"}
    /\ Truthy(d.extractedText)

\* what every detection does: it is counted, its text accumulated, and the
\* scan moves on
Scanned(title, sections) ==
    /\ structure' = [structure EXCEPT
                        !.title = title,
                        !.sections = sections,
                        !.metadata = Counted(@, detection)]
    /\ allText' = allText \o Accumulated(detection)
    /\ sortedDetections' = Tail(sortedDetections)
    /\ UNCHANGED <<pageResults, apc, pageIdx, results>>
    /\ UNCHANGED <<mvars, rvars, jvars>>

\* createDocumentStructure(pageResults) is called; the first page is sorted
CreateDocumentStructure ==
    /\ apc = "idle"
    /\ pageResults # <<>> => ~SortThrows(pageResults[1].detections)
    /\ apc' = "scan"
    /\ structure' = EmptyStructure
    /\ currentSection' = NullSection
    /\ allText' = <<>>
    /\ pageIdx' = 1
    /\ sortedDetections' =
           IF pageResults = <<>> THEN <<>>
           ELSE SortDetections(pageResults[1].detections)
    /\ pageResults' =
           IF pageResults = <<>> THEN pageResults
           ELSE [pageResults EXCEPT ![1].detections = AfterSortOfCopy(@)]
    /\ UNCHANGED results
    /\ UNCHANGED <<mvars, rvars, jvars>>

\* lines 45-49: the comparator reads the center of a detection that has none;
\* the TypeError leaves createDocumentStructure, nothing is returned
ThrowInSort ==
    /\ \/ /\ apc = "idle"
          /\ pageResults # <<>>
          /\ SortThrows(pageResults[1].detections)
       \/ /\ apc = "scan" /\ sortedDetections = <<>>
          /\ pageIdx < Len(pageResults)
          /\ SortThrows(pageResults[pageIdx + 1].detections)
    /\ apc' = "thrown"
    /\ UNCHANGED <<pageResults, pageIdx, sortedDetections, structure,
                   currentSection, allText, results>>
    /\ UNCHANGED <<mvars, rvars, jvars>>

\* lines 75-84: the detection sets the document title
SetTitle ==
    /\ apc = "scan" /\ sortedDetections # <<>>
    /\ IsTitle(detection)
    /\ Scanned(_cleanText(detection.extractedText), structure.sections)
    /\ UNCHANGED currentSection

\* lines 85-110: the detection closes the open section and opens a new one
OpenSection ==
    /\ apc = "scan" /\ sortedDetections # <<>>
    /\ ~IsTitle(detection) /\ IsSectionHeader(detection)
    /\ Scanned(structure.title,
               CloseSection(structure.sections, currentSection))
    /\ currentSection' =
           <<[title |-> _cleanText(detection.extractedText),
              page |-> pageNumber,
              confidence |-> detection.confidence,
              content |-> <<>>,
              wordCount |-> 0,
              elementCount |-> 0,
              index |-> 0]>>

\* lines 111-129: the detection is content of the open section, appended when
\* its cleaned text is long enough
AppendContent ==
    /\ apc = "scan" /\ sortedDetections # <<>>
    /\ ~IsTitle(detection) /\ ~IsSectionHeader(detection)
    /\ IsContent(detection)
    /\ Scanned(structure.title, structure.sections)
    /\ LET cleanText == _cleanText(detection.extractedText)
       IN  currentSection' =
               IF Len(cleanText) >= minTextLength
               THEN <<[currentSection[1] EXCEPT
                          !.content = Append(@,
                              [type |-> detection.label,
                               text |-> cleanText,
                               page |-> pageNumber,
                               confidence |-> detection.confidence]),
                          !.wordCount = @ + WordCount(cleanText),
                          !.elementCount = @ + 1]>>
               ELSE currentSection

\* the detection takes no branch of the structure
SkipDetection ==
    /\ apc = "scan" /\ sortedDetections # <<>>
    /\ ~IsTitle(detection) /\ ~IsSectionHeader(detection)
    /\ ~IsContent(detection)
    /\ Scanned(structure.title, structure.sections)
    /\ UNCHANGED currentSection

\* lines 52-63: the elements of a page, in the order of the scan
Element(d) ==
    [type |-> d.label,
     text |-> IF Truthy(d.extractedText) THEN d.extractedText ELSE <<>>,
     confidence |-> d.confidence,
     center |-> d.center]
PageElements(detections) ==
    LET sorted == SortDetections(detections)
    IN  [i \in 1..Len(sorted) |-> Element(sorted[i])]

\* line 145 and the next iteration of the loop over the pages
NextPage ==
    /\ apc = "scan" /\ sortedDetections = <<>>
    /\ pageIdx <= Len(pageResults)
    /\ pageIdx < Len(pageResults) =>
           ~SortThrows(pageResults[pageIdx + 1].detections)
    /\ structure' = [structure EXCEPT
                        !.pages = Append(@,
                            [pageNumber |-> pageNumber,
                             elements |->
                                 PageElements(
                                     pageResults[pageIdx].detections),
                             totalElements |->
                                 Len(pageResults[pageIdx].detections)])]
    /\ pageIdx' = pageIdx + 1
    /\ sortedDetections' =
           IF pageIdx < Len(pageResults)
           THEN SortDetections(pageResults[pageIdx + 1].detections)
           ELSE <<>>
    /\ pageResults' =
           IF pageIdx < Len(pageResults)
           THEN [pageResults EXCEPT
                    ![pageIdx + 1].detections = AfterSortOfCopy(@)]
           ELSE pageResults
    /\ UNCHANGED <<apc, currentSection, allText, results>>
    /\ UNCHANGED <<mvars, rvars, jvars>>

\* lines 148-166: the last section is closed, the structure post-processed
\* and returned
FinishStructure ==
    /\ apc = "scan"
    /\ pageIdx > Len(pageResults)
    /\ apc' = "done"
    /\ structure' =
           _postProcessStructure(
               [structure EXCEPT
                   !.sections = CloseSection(@, currentSection)])
    /\ allText' = Trim(allText)
    /\ results' = Append(results,
                         [pageResults |-> pageResults,
                          structure |-> structure',
                          searchIndex |-> createSearchIndex(structure')])
    /\ UNCHANGED <<pageResults, pageIdx, sortedDetections, currentSection>>
    /\ UNCHANGED <<mvars, rvars, jvars>>

(***************************************************************************)
(* Inputs of the analyzer                                                  *)
(***************************************************************************)
\* the number of detections of a document
MaxDetections == 3

TextSummary == <<"S", "u", "m", "m", "a", "r", "y">>
TextIntro == <<"I", "n", "t", "r", "o">>
TextHashes == <<"#", "#">>
TextNoisy == <<"a", "b", " ", "#", "#", " ", "c", "d", "!", "!">>
TextCaption == <<"F", "i", "g", ".", " ", "1", ":", " ", "(", "a", ")", " ", "t", "o", "o", "l">>

Detection(label, text, confidence, x, y) ==
    [label |-> label, extractedText |-> text, confidence |-> confidence,
     center |-> <<x, y>>]

SampleDetections ==
    {Detection("Title", TextSummary, 90, 10, 0),
     Detection("Title", NullText, 95, 0, 10),
     Detection("Title", TextHashes, 85, 0, 0),
     Detection("Section-header", TextIntro, 85, 10, 30),
     Detection("Section-header", TextAb, 75, 10, 60),
     Detection("Section-header", TextSummary, 60, 0, 45),
     Detection("Text", TextUseTheTool, 70, 10, 40),
     Detection("List-item", TextNoisy, 70, 0, 50),
     Detection("Caption", TextCaption, 65, 5, 90),
     [label |-> "Text", extractedText |-> TextUseTheTool, confidence |-> 70,
      center |-> <<>>]}

DetectionLists == UNION {[1..n -> SampleDetections] : n \in 0..MaxDetections}

\* one page, or two pages in either order of their page numbers
SamplePageResults ==
    {<<[pageNumber |-> 1, detections |-> ds]>> : ds \in DetectionLists}
    \cup
    {<<[pageNumber |-> p[1], detections |-> d[1]],
       [pageNumber |-> p[2], detections |-> d[2]]>> :
        p \in {<<1, 2>>, <<2, 1>>},
        d \in {e \in DetectionLists \X DetectionLists :
                  Len(e[1]) + Len(e[2]) <= MaxDetections}}

\* the number of detections of a document that is made of section headers
\* and content only
MaxSectionDetections == 4

\* two headers and two elements of content, in reading order as listed
SectionDetections ==
    {Detection("Section-header", TextIntro, 85, 10, 30),
     Detection("Text", TextShortText, 70, 10, 40),
     Detection("Section-header", TextFormFields, 75, 10, 60),
     Detection("Caption", TextCaption, 65, 5, 90)}

SectionDetectionLists ==
    UNION {[1..n -> SectionDetections] : n \in 0..MaxSectionDetections}

\* one page, or two pages in either order of their page numbers
SectionPageResults ==
    {<<[pageNumber |-> 1, detections |-> ds]>> : ds \in SectionDetectionLists}
    \cup
    {<<[pageNumber |-> p[1], detections |-> d[1]],
       [pageNumber |-> p[2], detections |-> d[2]]>> :
        p \in {<<1, 2>>, <<2, 1>>},
        d \in {e \in SectionDetectionLists \X SectionDetectionLists :
                  Len(e[1]) + Len(e[2]) <= MaxSectionDetections}}

\* three detections whose centers step down and to the left, each within
\* the band of the next and the first above the band of the last
BandDetections ==
    {Detection("Text", TextUseTheTool, 70, 10, 0),
     Detection("Text", TextUseTheTool, 70, 5, 15),
     Detection("Text", TextUseTheTool, 70, 0, 30)}

\* one page of such detections
BandPageResults ==
    {<<[pageNumber |-> 1, detections |-> ds]>> :
        ds \in UNION {[1..n -> BandDetections] : n \in 0..MaxDetections}}

\* what extractTextFromImage returns when recognize throws, and what
\* processPage stores when cropping or the OCR call throws
TextOcrExtractionFailed == <<"O", "C", "R", " ">> \o ExtractionFailed
TextTextExtractionFailed == <<"T", "e", "x", "t", " ">> \o ExtractionFailed

\* detections whose text could not be extracted, as processPage records them
MarkerDetections ==
    {Detection("Title", OcrNotAvailable, 90, 10, 0),
     Detection("Section-header", TextOcrExtractionFailed, 85, 10, 30),
     Detection("Text", TextTextExtractionFailed, 70, 10, 40)}

\* one page of such detections
MarkerPageResults ==
    {<<[pageNumber |-> 1, detections |-> ds]>> :
        ds \in UNION {[1..n -> MarkerDetections] : n \in 0..MaxDetections}}

(***************************************************************************)
(* The analyzer's specification                                            *)
(***************************************************************************)
MatcherOff ==
    /\ ollamaHandler = FALSE
    /\ config = SemanticMatcherConfig(
           [minMatchScore |-> QZero, aiEnhancedMode |-> TRUE,
            fuzzyWeight |-> QZero, cosineWeight |-> QZero,
            aiWeight |-> QZero, maxConcurrentAIRequests |-> 0])
    /\ topics = <<>>
    /\ analysisResults = <<>>
    /\ sim = <<>>
    /\ ppc = "off"
    /\ MatcherStart

InitAnalyzer ==
    /\ pageResults \in SamplePageResults \cup SectionPageResults
                        \cup BandPageResults \cup MarkerPageResults
    /\ apc = "idle"
    /\ pageIdx = 0
    /\ sortedDetections = <<>>
    /\ structure = EmptyStructure
    /\ currentSection = <<>>
    /\ allText = <<>>
    /\ results = <<>>
    /\ MatcherOff
    /\ RunIdle
    /\ JudgeIdle

NextAnalyzer ==
    \/ CreateDocumentStructure
    \/ SetTitle
    \/ OpenSection
    \/ AppendContent
    \/ SkipDetection
    \/ NextPage
    \/ ThrowInSort
    \/ FinishStructure

SpecAnalyzer == InitAnalyzer /\ [][NextAnalyzer]_vars

(***************************************************************************)
(* The analyzer called more than once                                      *)
(***************************************************************************)
\* the number of calls of createDocumentStructure
MaxCalls == 2

\* the list with the elements at i and i + 1 exchanged
Swapped(list, i) ==
    [k \in 1..Len(list) |->
        IF k = i THEN list[i + 1] ELSE IF k = i + 1 THEN list[i] ELSE list[k]]

\* the same pages with the detections of one page listed in another order
\* (two neighbours exchanged)
Reorderings(prs) ==
    UNION {{[prs EXCEPT ![p].detections = Swapped(@, i)] :
               i \in 1..(Len(prs[p].detections) - 1)} :
           p \in 1..Len(prs)}

\* Round1BPipeline.analyzeDocuments calls createDocumentStructure again, on
\* the same page results or on the same detections listed in another order
CallAgain ==
    /\ apc = "done"
    /\ Len(results) < MaxCalls
    /\ apc' = "idle"
    /\ pageResults' \in {pageResults} \cup Reorderings(pageResults)
    /\ UNCHANGED <<pageIdx, sortedDetections, structure, currentSection,
                   allText, results>>
    /\ UNCHANGED <<mvars, rvars, jvars>>

InitRerun ==
    /\ InitAnalyzer
    /\ Len(pageResults) = 1

NextRerun == NextAnalyzer \/ CallAgain

SpecRerun == InitRerun /\ [][NextRerun]_vars

(***************************************************************************)
(* Properties of the analyzer                                              *)
(***************************************************************************)
\* C10: every section of the structure createDocumentStructure returns has
\* non-empty content or a title longer than 3 characters
C10_SectionsRetained ==
    apc = "done" =>
        \A i \in Indices(structure.sections) :
            \/ structure.sections[i].content # <<>>
            \/ Len(structure.sections[i].title) > 3

\* the returned structure has a section, and a section header of the scan
\* opened a section that was left without content and is not in it
C10_Witness ==
    /\ apc = "done"
    /\ structure.sections # <<>>
    /\ structure.metadata.sectionHeaders > Len(structure.sections)
    /\ \E i \in Indices(structure.sections) :
          Len(structure.sections[i].title) <= 3

\* the elements of the returned structure's pages with their page numbers,
\* in the order they were processed
Processed ==
    Flat([p \in Indices(structure.pages) |->
             [k \in Indices(structure.pages[p].elements) |->
                 [element |-> structure.pages[p].elements[k],
                  page |-> structure.pages[p].pageNumber]]])

QualifyingHeader(e) ==
    /\ e.type = "Section-header"
    /\ e.confidence >= sectionThreshold
    /\ e.text # <<>>

QualifyingContent(e) ==
    /\ e.type \in {"Text", "List-item", "Caption"}
    /\ e.text # <<>>
    /\ Len(_cleanText(e.text)) >= minTextLength

\* the positions of the qualifying content whose most recent qualifying
\* header is the one at position h
ContentPositions(h) ==
    {k \in Indices(Processed) :
        /\ k > h
        /\ QualifyingContent(Processed[k].element)
        /\ \A j \in (h + 1)..(k - 1) :
               ~QualifyingHeader(Processed[j].element)}

\* the content at the positions ks, in processing order
ContentAt(ks) ==
    SeqMap(SelectIndices(Processed, LAMBDA k : k \in ks),
           LAMBDA x : [type |-> x.element.type,
                       text |-> _cleanText(x.element.text),
                       page |-> x.page,
                       confidence |-> x.element.confidence])

\* the qualifying headers that are followed by content of their own
HeadersWithContent ==
    {h \in Indices(Processed) :
        /\ QualifyingHeader(Processed[h].element)
        /\ ContentPositions(h) # {}}

\* C11: every qualifying content detection processed after a qualifying
\* section header is, exactly once, in the content of the section that the
\* most recent such header opened, the content of a section is in processing
\* order, and content processed while no section is open is in no section:
\* the returned sections are, one to one, the qualifying headers that have
\* content, each with exactly its content
C11_ContentInLatestSection ==
    apc = "done" =>
        \E f \in [Indices(structure.sections) -> HeadersWithContent] :
            /\ \A h \in HeadersWithContent :
                   Cardinality({i \in Indices(structure.sections) :
                                    f[i] = h}) = 1
            /\ \A i \in Indices(structure.sections) :
                   /\ structure.sections[i].title =
                          _cleanText(Processed[f[i]].element.text)
                   /\ structure.sections[i].page = Processed[f[i]].page
                   /\ structure.sections[i].content =
                          ContentAt(ContentPositions(f[i]))

\* a section was returned with content, and qualifying content that was
\* processed before the first header is in no section
C11_Witness ==
    /\ apc = "done"
    /\ structure.sections # <<>>
    /\ Processed # <<>>
    /\ QualifyingContent(Processed[1].element)

\* the detections of a list as a set with the number of times each occurs
Occurrences(list) ==
    [d \in {list[i] : i \in 1..Len(list)} |->
        Cardinality({i \in 1..Len(list) : list[i] = d})]

\* the same pages, each with the same detections in some order
SameDetections(a, b) ==
    /\ Len(a) = Len(b)
    /\ \A p \in 1..Len(a) :
          /\ a[p].pageNumber = b[p].pageNumber
          /\ Occurrences(a[p].detections) = Occurrences(b[p].detections)

\* C12: two calls of createDocumentStructure on page results that list the
\* same detections of every page, in whatever order, return the same title
\* and the same sections with the same content
C12_OrderOfDetectionsIrrelevant ==
    \A i, j \in Indices(results) :
        SameDetections(results[i].pageResults, results[j].pageResults) =>
            /\ results[i].structure.title = results[j].structure.title
            /\ results[i].structure.sections = results[j].structure.sections

\* C13: two calls of createDocumentStructure on the same page results return
\* the same structure, and createSearchIndex the same index for it
C13_Deterministic ==
    \A i, j \in Indices(results) :
        results[i].pageResults = results[j].pageResults =>
            /\ results[i].structure = results[j].structure
            /\ results[i].searchIndex = results[j].searchIndex

\* the second call on the same page results has returned a structure with a
\* title, a section and content of the section in its index
C13_Witness ==
    /\ Len(results) = 2
    /\ results[1].pageResults = results[2].pageResults
    /\ Truthy(results[2].structure.title)
    /\ Len(results[2].searchIndex) >= 3

\* C14: createDocumentStructure never throws, whatever the page results
C14_NeverThrows ==
    apc # "thrown"

(***************************************************************************)
(* Round1BPipeline: run                                                    *)
(***************************************************************************)
\* the number of documents an input names
MaxDocuments == 2

\* a validation that only looks at the documents
ValidatedDocumentsOnly(in) ==
    in.documents.kind = "array"

\* loadInput's validation: a documents array, persona.role and
\* job_to_be_done.task
Validated(in) ==
    /\ in.documents.kind = "array"
    /\ in.persona = "role"
    /\ in.job_to_be_done = "task"

\* input.documents.length, input.persona.role or input.job_to_be_done.task
\* is read of something undefined
ReadsUndefined(in) ==
    \/ in.documents.kind = "missing"
    \/ in.persona = "missing"
    \/ in.job_to_be_done = "missing"

\* an error leaves the try block: catch rethrows it, finally is next
Throw(message) ==
    /\ rpc' = "finally"
    /\ runError' = message

\* lines 568-575: the connection test, and what follows from its result
ConnectionTested(available) ==
    /\ ollamaAvailable' = IF available THEN "yes" ELSE "no"
    /\ matching' = IF available THEN matching
                   ELSE [matching EXCEPT !.aiEnhancedMode = FALSE]

\* await this.initializeComponents()
InitializeComponents ==
    /\ rpc = "start"
    /\ \E available \in BOOLEAN : ConnectionTested(available)
    /\ \E ok \in BOOLEAN :
          IF ok THEN rpc' = "load" /\ UNCHANGED runError
          ELSE Throw("initialize")
    /\ UNCHANGED <<input, effects>>
    /\ UNCHANGED <<mvars, avars, jvars>>

\* await this.loadInput() and the lines that report the input
LoadInput ==
    /\ rpc = "load"
    /\ IF ~Validated(input) THEN Throw("Failed to load input")
       ELSE IF ReadsUndefined(input) THEN Throw("TypeError")
       ELSE rpc' = "pdfs" /\ UNCHANGED runError
    /\ UNCHANGED <<input, effects>>
    /\ UNCHANGED <<matching, ollamaAvailable>>
    /\ UNCHANGED <<mvars, avars, jvars>>

\* await this.processPDFs(input.documents): every PDF is processed, and one
\* may fail
ProcessPDFs ==
    /\ rpc = "pdfs"
    /\ IF input.documents.kind # "array"
       THEN Throw("TypeError") /\ UNCHANGED effects
       ELSE /\ effects' = [effects EXCEPT
                              !.pdfs = @ + input.documents.length]
            /\ \E ok \in {TRUE} \cup
                          {b \in {FALSE} : input.documents.length > 0} :
                  IF ok THEN rpc' = "analyze" /\ UNCHANGED runError
                  ELSE Throw("processPDF")
    /\ UNCHANGED input
    /\ UNCHANGED <<matching, ollamaAvailable>>
    /\ UNCHANGED <<mvars, avars, jvars>>

\* await this.analyzeDocuments(pdfResults): each structure is built and
\* saved; the first save may fail
AnalyzeDocuments ==
    /\ rpc = "analyze"
    /\ \E ok \in {TRUE} \cup {b \in {FALSE} : input.documents.length > 0} :
          IF ok
          THEN /\ effects' = [effects EXCEPT
                                 !.structures = @ + input.documents.length,
                                 !.files = @ + input.documents.length]
               /\ rpc' = "summaries" /\ UNCHANGED runError
          ELSE /\ effects' = [effects EXCEPT !.structures = @ + 1]
               /\ Throw("saveDocumentStructure")
    /\ UNCHANGED input
    /\ UNCHANGED <<matching, ollamaAvailable>>
    /\ UNCHANGED <<mvars, avars, jvars>>

\* await this.generateSummaries(analysisResults): failures are caught
GenerateSummaries ==
    /\ rpc = "summaries"
    /\ rpc' = "topics"
    /\ UNCHANGED <<input, runError, effects>>
    /\ UNCHANGED <<matching, ollamaAvailable>>
    /\ UNCHANGED <<mvars, avars, jvars>>

\* await this.generateRankedTopics(...): a failure yields the fallback topics
GenerateRankedTopics ==
    /\ rpc = "topics"
    /\ rpc' = "matching"
    /\ UNCHANGED <<input, runError, effects>>
    /\ UNCHANGED <<matching, ollamaAvailable>>
    /\ UNCHANGED <<mvars, avars, jvars>>

\* await this.performSemanticMatching(rankedTopics, analysisResults) and
\* generateFinalOutput
PerformSemanticMatching ==
    /\ rpc = "matching"
    /\ effects' = [effects EXCEPT
                      !.matchings = @ + input.documents.length]
    /\ rpc' = "save"
    /\ UNCHANGED <<input, runError>>
    /\ UNCHANGED <<matching, ollamaAvailable>>
    /\ UNCHANGED <<mvars, avars, jvars>>

\* await this.saveAllOutputs(...), displayResults and return output; the
\* first write may fail
SaveAllOutputs ==
    /\ rpc = "save"
    /\ \E ok \in BOOLEAN :
          IF ok
          THEN /\ effects' = [effects EXCEPT !.files = @ + 2]
               /\ rpc' = "finally" /\ UNCHANGED runError
          ELSE /\ UNCHANGED effects
               /\ Throw("outputJSON")
    /\ UNCHANGED input
    /\ UNCHANGED <<matching, ollamaAvailable>>
    /\ UNCHANGED <<mvars, avars, jvars>>

\* finally: await this.cleanup(); run resolves, or rejects with the error
Cleanup ==
    /\ rpc = "finally"
    /\ effects' = [effects EXCEPT !.cleanups = @ + 1]
    /\ rpc' = IF runError = "none" THEN "resolved" ELSE "rejected"
    /\ UNCHANGED <<input, runError>>
    /\ UNCHANGED <<matching, ollamaAvailable>>
    /\ UNCHANGED <<mvars, avars, jvars>>

\* the input documents fs.readJSON may yield
Inputs ==
    [documents : {[kind |-> "missing", length |-> 0],
                  [kind |-> "object", length |-> 0]}
                 \cup {[kind |-> "array", length |-> n] :
                          n \in 0..MaxDocuments},
     persona : {"missing", "noRole", "role"},
     job_to_be_done : {"missing", "noTask", "task"}]

InitRun ==
    /\ rpc = "start"
    /\ input \in Inputs
    /\ runError = "none"
    /\ effects = NoEffects
    /\ matching = ConfigMatching
    /\ ollamaAvailable = "untested"
    /\ MatcherOff
    /\ AnalyzerIdle
    /\ JudgeIdle

NextRun ==
    \/ InitializeComponents
    \/ LoadInput
    \/ ProcessPDFs
    \/ AnalyzeDocuments
    \/ GenerateSummaries
    \/ GenerateRankedTopics
    \/ PerformSemanticMatching
    \/ SaveAllOutputs
    \/ Cleanup

SpecRun == InitRun /\ [][NextRun]_vars

\* the input lacks a documents array, persona.role or job_to_be_done.task
InputLacks ==
    \/ input.documents.kind # "array"
    \/ input.persona # "role"
    \/ input.job_to_be_done # "task"

\* C15: when the input lacks a documents array, persona.role or
\* job_to_be_done.task, run does not resolve, no PDF is processed, no
\* structure analysed, no matching done and no output file written, and a
\* rejected run has done its cleanup
C15_InvalidInputAborts ==
    InputLacks =>
        /\ rpc # "resolved"
        /\ effects.pdfs = 0 /\ effects.structures = 0
        /\ effects.matchings = 0 /\ effects.files = 0
        /\ rpc = "rejected" => effects.cleanups = 1

\* a run was rejected by loadInput and has cleaned up
C15_Witness ==
    /\ InputLacks
    /\ rpc = "rejected"
    /\ runError = "Failed to load input"
    /\ effects.cleanups = 1

\* the entries of the search index whose text is missing or shorter than 3
ShortEntries ==
    {i \in Indices(searchIndex) :
        ~Truthy(searchIndex[i].text) \/ Len(searchIndex[i].text) < 3}

\* C16: the traditional score of a text that is missing or shorter than 3
\* characters is 0 for every topic, no candidate is made of such an element
\* and every match is made of an element with a longer text
C16_ShortTextScoresZero ==
    /\ \A i \in ShortEntries, t \in Indices(topics) :
          _calculateTraditionalScore(topics[t], searchIndex[i].text) = QZero
    /\ \A r \in Indices(runs) :
          \A k \in Indices(runs[r].candidates) :
              /\ Truthy(runs[r].candidates[k].element.text)
              /\ Len(runs[r].candidates[k].element.text) >= 3
    /\ \A m \in Indices(matches) :
          \E i \in Indices(searchIndex) \ ShortEntries :
              /\ matches[m].section_title =
                     _truncateText(searchIndex[i].text, TruncateLength)
              /\ matches[m].page_number = searchIndex[i].page
              /\ matches[m].match_type = searchIndex[i].type

\* findBestMatches returned matches for an index that has a short text which
\* is as similar to a topic as can be
C16_Witness ==
    /\ mpc = "done"
    /\ matches # <<>>
    /\ \E i \in ShortEntries, t \in Indices(topics) :
          sim[<<topics[t], searchIndex[i].text>>] = <<QOne, QOne>>

\* C17: executePrompt makes its attempts in order and never more than
\* maxRetries; a failed attempt k that is not the last is followed by a sleep
\* of k * 1000 ms before attempt k + 1; the call that failed maxRetries times
\* is rejected without another sleep or attempt; the call that got a response
\* has returned at that attempt
C17_RetriesWithLinearBackoff ==
    \A c \in Indices(calls) :
        LET call == calls[c]
            sleeps == IF call.sleeping THEN call.attempt
                      ELSE call.attempt - 1
        IN  /\ call.attempt <= MaxRetries
            /\ call.slept = [k \in 1..sleeps |-> 1000 * k]
            /\ call.sleeping => call.attempt < MaxRetries
            /\ call.failed =>
                   /\ call.state = "settled"
                   /\ call.attempt = MaxRetries
                   /\ Len(call.slept) = MaxRetries - 1
            /\ call.state = "settled" => ~call.sleeping

\* one call failed on all its attempts after sleeping 1000 and 2000 ms, and
\* another returned at its first attempt
C17_Witness ==
    /\ \E c \in Indices(calls) :
          calls[c].failed /\ calls[c].slept = <<1000, 2000>>
    /\ \E c \in Indices(calls) :
          /\ calls[c].state = "settled" /\ ~calls[c].failed
          /\ calls[c].attempt = 1

(***************************************************************************)
(* The matcher and the analyzer side by side                               *)
(***************************************************************************)
InitBoth ==
    \/ /\ PipelineInit \/ WideInit
       /\ MatcherIdle
       /\ AnalyzerIdle
       /\ RunIdle
       /\ JudgeIdle
    \/ InitRerun

NextBoth == Next \/ NextAnalyzer

SpecBoth == InitBoth /\ [][NextBoth]_vars

\* C18: findBestMatches and generateRefinedAnalysis leave the topic list, the
\* document structures and the matches handed to them as they were, and
\* createDocumentStructure leaves the page results and the order of their
\* detections as they were
C18_InputsOnlyRead ==
    [][/\ topics' = topics
       /\ analysisResults' = analysisResults
       /\ ppc = "done" => allMatches' = allMatches
       /\ pageResults' = pageResults]_vars

\* the refined analysis of at least one match was generated
C18_Witness ==
    /\ ppc = "refined"
    /\ refinedAnalysis # <<>>
    /\ Len(refinedAnalysis) = Len(allMatches)

\* the positions of the Title detections with confidence >= titleThreshold
\* and a non-empty text, in processing order
QualifyingTitles ==
    {k \in Indices(Processed) :
        /\ Processed[k].element.type = "Title"
        /\ Processed[k].element.confidence >= titleThreshold
        /\ Processed[k].element.text # <<>>}

\* C19: the returned title is the cleaned text of the first qualifying Title
\* detection; without one it is the title of the first retained section when
\* that is longer than 5 characters, and absent otherwise
C19_TitleIsFirstQualifying ==
    apc = "done" =>
        IF QualifyingTitles # {}
        THEN LET first == CHOOSE k \in QualifyingTitles :
                              \A j \in QualifyingTitles : k <= j
             IN  structure.title = _cleanText(Processed[first].element.text)
        ELSE IF /\ structure.sections # <<>>
                /\ Len(structure.sections[1].title) > 5
        THEN structure.title = structure.sections[1].title
        ELSE structure.title = NullText


\* the returned sections i and j are of the same page
SamePage(i, j) == structure.sections[i].page = structure.sections[j].page

\* C20: the returned sections are in non-decreasing order of their page
\* numbers, the sections of one page are in the order in which their headers
\* were processed, and the index of the i-th section of the list is i
C20_SectionsOrderedAndIndexed ==
    apc = "done" =>
        /\ \A i, j \in Indices(structure.sections) :
               i < j => structure.sections[i].page <= structure.sections[j].page
        /\ \A i \in Indices(structure.sections) :
               structure.sections[i].index = i
        /\ \E opened \in [Indices(structure.sections) -> HeadersWithContent] :
               /\ \A i \in Indices(structure.sections) :
                      /\ structure.sections[i].title =
                             _cleanText(Processed[opened[i]].element.text)
                      /\ structure.sections[i].page = Processed[opened[i]].page
                      /\ structure.sections[i].content =
                             ContentAt(ContentPositions(opened[i]))
               /\ \A i, j \in Indices(structure.sections) :
                      i < j /\ SamePage(i, j) => opened[i] < opened[j]

\* two sections were returned, the one of page 1 first, although the page
\* with number 2 was processed first
C20_Witness ==
    /\ apc = "done"
    /\ Len(structure.sections) = 2
    /\ structure.sections[1].page = 1
    /\ structure.sections[2].page = 2
    /\ structure.pages[1].pageNumber = 2
    /\ structure.sections[1].index = 1


\* a's center is more than the band above b's center
AboveBand(a, b) == b.center[2] - a.center[2] > ReadingBand

\* the centers are within the band of each other and a's is further left
LeftInBand(a, b) ==
    /\ Abs(a.center[2] - b.center[2]) <= ReadingBand
    /\ a.center[1] < b.center[1]

\* C21: within each page, a detection whose center is more than 20 units
\* above another's is processed before it, and of two detections whose
\* centers are within 20 vertical units the one further left is processed
\* first
C21_ReadingOrder ==
    apc = "done" =>
        \A p \in Indices(structure.pages) :
            LET es == structure.pages[p].elements
            IN  \A i, j \in Indices(es) :
                    i < j /\ es[i].center # <<>> /\ es[j].center # <<>> =>
                        /\ ~AboveBand(es[j], es[i])
                        /\ ~LeftInBand(es[j], es[i])


(***************************************************************************)
(* Properties of the selection of candidates for the judge                 *)
(***************************************************************************)
\* the candidates of run r the judge was called for
Judged(r) == {calls[c].cand : c \in {k \in Indices(calls) : calls[k].run = r}}

\* the candidates of run r the judge was not called for
NotJudged(r) == Indices(runs[r].candidates) \ Judged(r)

\* the match that candidate d of run r yields is in the run's match list
MatchListed(r, d) ==
    LET c == runs[r].candidates[d]
    IN  \E m \in Indices(runs[r].matches) :
            /\ runs[r].matches[m].section_title =
                   _truncateText(c.element.text, TruncateLength)
            /\ runs[r].matches[m].traditional_score =
                   ToFixed3(c.traditionalScore)
            /\ runs[r].matches[m].ai_score = QZero
            /\ runs[r].matches[m].match_score =
                   ToFixed3(_calculateFinalScore(c.traditionalScore, QZero))

\* C22: per topic at most 5 judge calls are issued, one per selected
\* candidate; every judged candidate has a traditional score that is at
\* least that of every candidate not judged; a candidate not judged keeps AI
\* score 0 and is in the match list exactly if its final score reaches
\* minMatchScore
C22_TopFiveJudged ==
    \A r \in Indices(runs) :
        /\ Cardinality({c \in Indices(calls) : calls[c].run = r})
               <= TopCandidates
        /\ Cardinality({c \in Indices(calls) : calls[c].run = r})
               = Cardinality(Judged(r))
        /\ Judged(r) \subseteq Indices(runs[r].candidates)
        /\ \A c \in Judged(r), d \in NotJudged(r) :
               QLeq(runs[r].candidates[d].traditionalScore,
                    runs[r].candidates[c].traditionalScore)
        /\ \A d \in NotJudged(r) :
               /\ runs[r].candidates[d].aiScore = QZero
               /\ runs[r].status = "done" =>
                      (MatchListed(r, d) <=>
                          QLeq(config.minMatchScore,
                               _calculateFinalScore(
                                   runs[r].candidates[d].traditionalScore,
                                   QZero)))

\* a topic with six candidates is done: five were judged, the sixth was not
\* and is in the match list
C22_Witness ==
    \E r \in Indices(runs) :
        /\ runs[r].status = "done"
        /\ Len(runs[r].candidates) = TopCandidates + 1
        /\ Cardinality(Judged(r)) = TopCandidates
        /\ \E d \in NotJudged(r) : MatchListed(r, d)


(***************************************************************************)
(* Termination of the judge calls                                          *)
(***************************************************************************)
\* judge call c is in flight
InFlight(c) == c \in Indices(calls) /\ calls[c].state = "pending"

\* C23: every judge call that is in flight eventually settles, and every
\* findBestMatches call in progress eventually returns, also when no process
\* of the judge ever answers: from some point on the matching is over and
\* no judge call is in flight
C23_CallsSettleAndMatcherReturns ==
    <>[](ppc # "matching" /\ \A c \in Indices(calls) : ~InFlight(c))

\* findBestMatches has returned although every attempt of a judge call ran
\* into its timer and had its process terminated
C23_Witness ==
    /\ mpc = "done"
    /\ \E c \in Indices(calls) :
           /\ calls[c].killed = MaxRetries
           /\ calls[c].failed
           /\ calls[c].state = "settled"


(***************************************************************************)
(* OllamaHandler.getSemanticRelevance called on its own                    *)
(***************************************************************************)
\* the texts the judge is asked about: missing, empty, short, long enough
JudgeTexts == {NullText, <<>>, TextAb, TextUseTheTool, TextFormFields}

\* what the judge's process may write
JudgeResponses ==
    {<<"0", ".", "7", "5">>,
     <<".", "5">>,
     <<"7">>,
     <<"-", "1">>,
     <<" ", "1", ".", " ">>,
     <<"S", "c", "o", "r", "e", ":", " ", "0", ".", "3">>,
     <<"1", ".", "5", ".", "3">>,
     <<"n", "o">>,
     <<".">>,
     <<" ", " ">>,
     <<>>}

\* the call returns or rejects with result
JudgeSettles(outcome) ==
    LET result == getSemanticRelevance(outcome)
    IN  /\ jpc' = IF result.rejected THEN "rejected" ELSE "returned"
        /\ joutcome' = outcome
        /\ relevance' = result.value
        /\ UNCHANGED <<judged, jattempt>>

\* the catch block of executePrompt: sleep and retry, or throw after the
\* last attempt
JudgeAttemptFailed(error) ==
    /\ jerror' = error
    /\ IF jattempt < MaxRetries
       THEN /\ jpc' = "sleep"
            /\ UNCHANGED <<judged, jattempt, joutcome, relevance>>
       ELSE JudgeSettles([ok |-> FALSE, response |-> <<>>])

\* getSemanticRelevance(topic, text) up to its await: 0 for a text that is
\* missing or short, else the first attempt of executePrompt
JudgeCalled ==
    /\ jpc = "idle"
    /\ IF NeedsPrompt(judged.text)
       THEN /\ jpc' = "attempt"
            /\ jattempt' = 1
            /\ UNCHANGED <<judged, jerror, joutcome, relevance>>
       ELSE /\ jpc' = "returned"
            /\ relevance' = QZero
            /\ UNCHANGED <<judged, jattempt, jerror, joutcome>>
    /\ UNCHANGED <<mvars, avars, rvars>>

\* the process of the attempt closes with exit code 0 and response as its
\* output: executePrompt returns response.trim(), or takes an empty one for
\* a failure
JudgeAnswers(response) ==
    /\ jpc = "attempt"
    /\ IF Trim(response) # <<>>
       THEN JudgeSettles([ok |-> TRUE, response |-> Trim(response)])
            /\ UNCHANGED jerror
       ELSE JudgeAttemptFailed("Empty response from Ollama")
    /\ UNCHANGED <<mvars, avars, rvars>>

\* _runOllamaCommand rejects (timeout, exit code, spawn error)
JudgeAttemptRejected ==
    /\ jpc = "attempt"
    /\ JudgeAttemptFailed("rejected")
    /\ UNCHANGED <<mvars, avars, rvars>>

\* the backoff sleep is over
JudgeSleepEnds ==
    /\ jpc = "sleep"
    /\ jpc' = "attempt"
    /\ jattempt' = jattempt + 1
    /\ UNCHANGED <<judged, jerror, joutcome, relevance>>
    /\ UNCHANGED <<mvars, avars, rvars>>

InitJudge ==
    /\ jpc = "idle"
    /\ judged \in [topic : TopicNames, text : JudgeTexts]
    /\ jattempt = 0
    /\ jerror = "none"
    /\ joutcome = <<>>
    /\ relevance = QZero
    /\ MatcherOff
    /\ AnalyzerIdle
    /\ RunIdle

NextJudge ==
    \/ JudgeCalled
    \/ \E response \in JudgeResponses : JudgeAnswers(response)
    \/ JudgeAttemptRejected
    \/ JudgeSleepEnds

SpecJudge == InitJudge /\ [][NextJudge]_vars

\* the response has a digit in it
HasNumber(response) == \E i \in Indices(response) : IsDigit(response[i])

\* C24: getSemanticRelevance never rejects and returns a number in [0,1]:
\* 0 when the response has no number in it, 0 when the call failed after all
\* retries, and otherwise the parsed number, or 1 if that is greater
C24_JudgeNeverRejects ==
    /\ jpc # "rejected"
    /\ jpc = "returned" =>
           /\ QLeq(QZero, relevance) /\ QLeq(relevance, QOne)
           /\ joutcome = <<>> => relevance = QZero
           /\ joutcome # <<>> =>
                  IF ~joutcome.ok \/ ~HasNumber(joutcome.response)
                  THEN relevance = QZero
                  ELSE IF QLt(QOne, ParseScore(joutcome.response))
                  THEN relevance = QOne
                  ELSE relevance = ParseScore(joutcome.response)

\* the call returned 1 for a response with a greater number in it, on the
\* last attempt
C24_Witness ==
    /\ jpc = "returned"
    /\ jattempt = MaxRetries
    /\ joutcome # <<>>
    /\ joutcome.ok
    /\ QLt(QOne, ParseScore(joutcome.response))
    /\ relevance = QOne


(***************************************************************************)
(* The order in which judge calls complete                                 *)
(***************************************************************************)
\* the matches of the topics in topic order, from the scores the judge gave
\* for each candidate, sorted
MatchesFromScores ==
    StableSort(
        Flat([r \in Indices(runs) |->
                 TopicMatches(runs[r].topic, runs[r].topicIndex,
                              runs[r].candidates)]),
        MatchBefore)

\* C25: the matches findBestMatches returns and the counters are determined
\* by the topics, the index and the score the judge gave for each (topic,
\* text), whatever the order in which the judge calls of a batch completed:
\* the topics are taken in list order, the matches of each are built from
\* the scores of all its candidates once all its calls have settled, and the
\* counters count the matches and the calls
C25_CompletionOrderIrrelevant ==
    /\ \A r \in Indices(runs) :
           /\ runs[r].topic = topics[r]
           /\ mpc # "idle" /\ runs[r].status = "done" =>
                  /\ \A c \in Indices(calls) :
                         calls[c].run = r => calls[c].state = "settled"
                  /\ runs[r].matches =
                         TopicMatches(runs[r].topic, runs[r].topicIndex,
                                      runs[r].candidates)
    /\ mpc = "done" =>
           /\ Len(runs) = Len(topics)
           /\ matches = MatchesFromScores
           /\ docNo = 1 =>
                  /\ stats.totalMatches = Len(matches)
                  /\ stats.aiEnhancedMatches + stats.failedAIMatches
                         = Len(calls)

\* a judge call has completed before one of the same batch that was issued
\* earlier: of the same topic, and of another topic
C25_Witness ==
    /\ \E c, d \in Indices(calls) :
           /\ c < d
           /\ calls[c].run = calls[d].run
           /\ calls[c].state = "pending"
           /\ calls[d].state = "settled"
    /\ \E c, d \in Indices(calls) :
           /\ c < d
           /\ calls[c].run # calls[d].run
           /\ calls[c].batch = calls[d].batch
           /\ calls[c].state = "pending"
           /\ calls[d].state = "settled"


(***************************************************************************)
(* The final score as a function of the AI score                           *)
(***************************************************************************)
\* the scores the judge gives in the model: 0 and the numbers of its responses
JudgeScores ==
    {QZero} \cup
    {getSemanticRelevance([ok |-> TRUE, response |-> r]).value :
        r \in Responses}

\* C26: with a judge configured, the final score of a candidate does not go
\* down when the AI score goes up, from 0 on
C26_FinalScoreMonotone ==
    ollamaHandler /\ config.aiEnhancedMode =>
        \A r \in Indices(runs) :
            \A k \in Indices(runs[r].candidates) :
                \A lower, higher \in JudgeScores :
                    QLeq(lower, higher) =>
                        QLeq(_calculateFinalScore(
                                 runs[r].candidates[k].traditionalScore, lower),
                             _calculateFinalScore(
                                 runs[r].candidates[k].traditionalScore, higher))


(***************************************************************************)
(* The two search indexes of a structure                                   *)
(***************************************************************************)
\* text, page and owning section of the entries of an index
Located(index) ==
    [i \in Indices(index) |->
        [text |-> index[i].text, page |-> index[i].page,
         section |-> index[i].section]]

\* C27: the index the matcher scores has the same entries in the same order
\* (text, page and owning section) as the index DocumentAnalyzer makes of the
\* same structure
C27_IndexesAgree ==
    apc = "done" =>
        Located(_createSearchIndex(structure))
            = Located(createSearchIndex(structure))


(***************************************************************************)
(* The pipeline's matcher after the connection test                        *)
(***************************************************************************)
\* Round1BPipeline.constructor: the matcher is constructed with the judge
\* and CONFIG.matching
InitFallback ==
    /\ rpc = "off"
    /\ input = [documents |-> [kind |-> "array", length |-> 0],
                persona |-> "role", job_to_be_done |-> "task"]
    /\ runError = "none"
    /\ effects = NoEffects
    /\ matching = ConfigMatching
    /\ ollamaAvailable = "untested"
    /\ ollamaHandler = TRUE
    /\ config = SemanticMatcherConfig(matching)
    /\ topics \in DistinctTopicLists(MaxJudgedTopics)
    /\ analysisResults \in OneDocument
    /\ sim \in OneTextSimTables(topics, analysisResults)
    /\ ppc = "init"
    /\ MatcherStart
    /\ AnalyzerIdle
    /\ JudgeIdle

\* initializeComponents before the matching: the connection test
InitializeBeforeMatching ==
    /\ ppc = "init"
    /\ \E available \in BOOLEAN : ConnectionTested(available)
    /\ ppc' = "matching"
    /\ UNCHANGED <<inputs, stats, mpc, searchIndex, topicBatches, batchNo,
                   runs, calls, matches, docNo, allMatches, totalMatches,
                   refinedAnalysis, returned, issued>>
    /\ UNCHANGED <<rpc, input, runError, effects>>
    /\ UNCHANGED <<avars, jvars>>

NextFallback == InitializeBeforeMatching \/ Next

SpecFallback == InitFallback /\ [][NextFallback]_vars

\* C28: when the connection test has failed, no judge call is issued in the
\* matching that follows and every match has ai_score 0
C28_FallbackToTraditional ==
    ollamaAvailable = "no" =>
        /\ calls = <<>>
        /\ \A i \in Indices(matches) : matches[i].ai_score = QZero
        /\ \A i \in Indices(allMatches) : allMatches[i].ai_score = QZero

(***************************************************************************)
(* The matcher's counters over several calls, with resetStats              *)
(***************************************************************************)
\* resetStats, called before or after a findBestMatches call of the loop of
\* performSemanticMatching, while none is in progress
ResetStats ==
    /\ ppc = "matching"
    /\ mpc # "awaitBatch"
    /\ stats' = ZeroStats
    /\ returned' = 0
    /\ issued' = 0
    /\ UNCHANGED <<inputs, mpc, searchIndex, topicBatches, batchNo, runs,
                   calls, matches, ppc, docNo, allMatches, totalMatches,
                   refinedAnalysis>>
    /\ UNCHANGED <<avars, rvars, jvars>>

InitStats ==
    /\ \E c \in Constructions :
          /\ ollamaHandler = c.handler
          /\ config = SemanticMatcherConfig(c.raw)
    /\ topics \in DistinctTopicLists(MaxJudgedTopics)
    /\ analysisResults \in TwoDocuments
    /\ sim \in OneTextSimTables(topics, analysisResults)
    /\ MatcherIdle
    /\ AnalyzerIdle
    /\ RunIdle
    /\ JudgeIdle

NextStats == ResetStats \/ Next

SpecStats == InitStats /\ [][NextStats]_vars

\* the counters account for the work done since construction or the last
\* resetStats
Accounted ==
    /\ stats.totalMatches = returned
    /\ stats.aiEnhancedMatches + stats.failedAIMatches = issued
    /\ stats.traditionalMatches <= stats.totalMatches

\* no counter is smaller after the step than before it
NoCounterDecreases ==
    /\ stats'.totalMatches >= stats.totalMatches
    /\ stats'.aiEnhancedMatches >= stats.aiEnhancedMatches
    /\ stats'.traditionalMatches >= stats.traditionalMatches
    /\ stats'.failedAIMatches >= stats.failedAIMatches

MarksFailure(text) ==
    Includes(text, OcrNotAvailable) \/ Includes(text, ExtractionFailed)

\* C30: no document title, section title or section content item of the
\* structure createDocumentStructure returns is text that marks an
\* extraction failure, and the allText accumulator holds none either
C30_NoFailureMarker ==
    apc = "done" =>
        /\ ~MarksFailure(structure.title)
        /\ \A i \in Indices(structure.sections) :
               /\ ~MarksFailure(structure.sections[i].title)
               /\ \A k \in Indices(structure.sections[i].content) :
                      ~MarksFailure(structure.sections[i].content[k].text)
        /\ ~MarksFailure(allText)

====
